---- MODULE Spec2Model ----
(***************************************************************************)
(* Model of the medical processing workflow (backend/app/graph): the       *)
(* three-stage chain transcription -> medical_extraction -> diagnosis, the *)
(* workflow state threaded through it, and the pure text functions the     *)
(* stages use.                                                             *)
(*                                                                         *)
(* Text is modelled as a sequence of tokens.  A token is an indivisible    *)
(* piece of a Python str: a header literal, a newline, a blank, a word.    *)
(* Concatenating token sequences is concatenating the strings.             *)
(***************************************************************************)
EXTENDS Integers, Sequences, FiniteSets, TLC

(* ------------------------------ bounds --------------------------------- *)
MaxLen == 4          \* longest free-form completion text, in tokens
MaxBody == 2         \* most body lines under one header in a sectioned text
MaxTraceFaults == 1  \* most tracing calls that fail in one run

(* --------------------------- text primitives --------------------------- *)
NL == "\n"
SP == " "
H_DIAGNOSIS == "DIAGNOSIS:"
H_TREATMENT == "TREATMENT PLAN:"
H_RECOMMENDATIONS == "RECOMMENDATIONS:"
Headers == {H_DIAGNOSIS, H_TREATMENT, H_RECOMMENDATIONS}
Whitespace == {SP, NL}

RECURSIVE LStrip(_)
LStrip(s) == IF s # <<>> /\ Head(s) \in Whitespace THEN LStrip(Tail(s)) ELSE s

RECURSIVE RStrip(_)
RStrip(s) ==
    IF s # <<>> /\ s[Len(s)] \in Whitespace
    THEN RStrip(SubSeq(s, 1, Len(s) - 1))
    ELSE s

\* str.strip()
Strip(s) == RStrip(LStrip(s))

\* str.startswith(h) for an indivisible literal h
StartsWith(s, h) == s # <<>> /\ Head(s) = h

\* str.replace(h, ""): every occurrence of the literal is removed
RECURSIVE Remove(_, _)
Remove(s, h) ==
    IF s = <<>> THEN <<>>
    ELSE IF Head(s) = h THEN Remove(Tail(s), h)
    ELSE <<Head(s)>> \o Remove(Tail(s), h)

\* str.split("\n"): always at least one line
RECURSIVE SplitFrom(_, _)
SplitFrom(s, cur) ==
    IF s = <<>> THEN <<cur>>
    ELSE IF Head(s) = NL THEN <<cur>> \o SplitFrom(Tail(s), <<>>)
    ELSE SplitFrom(Tail(s), Append(cur, Head(s)))

SplitLines(s) == SplitFrom(s, <<>>)

(* ------------------------- diagnosis parser ---------------------------- *)
EmptyDiagnosis == [diagnosis |-> <<>>, treatment_plan |-> <<>>, recommendations |-> <<>>]

\* a parser that starts inside the diagnosis section
ParseStartInDiagnosis ==
    [diagnosis |-> <<>>, treatment_plan |-> <<>>, recommendations |-> <<>>,
     current_section |-> "diagnosis"]

\* parser state before the loop: three empty buffers, no current section
ParseStart ==
    [diagnosis |-> <<>>, treatment_plan |-> <<>>, recommendations |-> <<>>,
     current_section |-> "None"]

\* a loop body that also takes the lower-case diagnosis header for a header
ParseLineAnyCase(acc, raw) ==
    LET line == Strip(raw) IN
    IF StartsWith(line, "diagnosis:") THEN
        [acc EXCEPT !.current_section = "diagnosis",
                    !.diagnosis = @ \o Strip(Remove(line, "diagnosis:")) \o <<NL>>]
    ELSE IF StartsWith(line, H_DIAGNOSIS) THEN
        [acc EXCEPT !.current_section = "diagnosis",
                    !.diagnosis = @ \o Strip(Remove(line, H_DIAGNOSIS)) \o <<NL>>]
    ELSE IF StartsWith(line, H_TREATMENT) THEN
        [acc EXCEPT !.current_section = "treatment",
                    !.treatment_plan = @ \o Strip(Remove(line, H_TREATMENT)) \o <<NL>>]
    ELSE IF StartsWith(line, H_RECOMMENDATIONS) THEN
        [acc EXCEPT !.current_section = "recommendations",
                    !.recommendations = @ \o Strip(Remove(line, H_RECOMMENDATIONS)) \o <<NL>>]
    ELSE IF acc.current_section = "diagnosis" THEN
        [acc EXCEPT !.diagnosis = @ \o line \o <<NL>>]
    ELSE IF acc.current_section = "treatment" THEN
        [acc EXCEPT !.treatment_plan = @ \o line \o <<NL>>]
    ELSE IF acc.current_section = "recommendations" THEN
        [acc EXCEPT !.recommendations = @ \o line \o <<NL>>]
    ELSE acc

\* one iteration of the loop over the lines
ParseLine(acc, raw) ==
    LET line == Strip(raw) IN
    IF StartsWith(line, H_DIAGNOSIS) THEN
        [acc EXCEPT !.current_section = "diagnosis",
                    !.diagnosis = @ \o Strip(Remove(line, H_DIAGNOSIS)) \o <<NL>>]
    ELSE IF StartsWith(line, H_TREATMENT) THEN
        [acc EXCEPT !.current_section = "treatment",
                    !.treatment_plan = @ \o Strip(Remove(line, H_TREATMENT)) \o <<NL>>]
    ELSE IF StartsWith(line, H_RECOMMENDATIONS) THEN
        [acc EXCEPT !.current_section = "recommendations",
                    !.recommendations = @ \o Strip(Remove(line, H_RECOMMENDATIONS)) \o <<NL>>]
    ELSE IF acc.current_section = "diagnosis" THEN
        [acc EXCEPT !.diagnosis = @ \o line \o <<NL>>]
    ELSE IF acc.current_section = "treatment" THEN
        [acc EXCEPT !.treatment_plan = @ \o line \o <<NL>>]
    ELSE IF acc.current_section = "recommendations" THEN
        [acc EXCEPT !.recommendations = @ \o line \o <<NL>>]
    ELSE acc

RECURSIVE ParseLoop(_, _)
ParseLoop(acc, lines) ==
    IF lines = <<>> THEN acc ELSE ParseLoop(ParseLine(acc, Head(lines)), Tail(lines))

\* a parser that returns the buffers untrimmed
ParseDiagnosisUntrimmed(text) ==
    LET acc == ParseLoop(ParseStart, SplitLines(text)) IN
    [diagnosis |-> acc.diagnosis,
     treatment_plan |-> acc.treatment_plan,
     recommendations |-> acc.recommendations]

\* the DiagnosisResult built from the completion text
ParseDiagnosis(text) ==
    LET acc == ParseLoop(ParseStart, SplitLines(text)) IN
    [diagnosis |-> Strip(acc.diagnosis),
     treatment_plan |-> Strip(acc.treatment_plan),
     recommendations |-> Strip(acc.recommendations)]

(* ------------------------------- JSON ---------------------------------- *)
\* Python values produced by json.loads, tagged by type
JNull == [t |-> "null"]
JNum(n) == [t |-> "num", v |-> n]
JStr(s) == [t |-> "str", v |-> s]
JList(l) == [t |-> "list", v |-> l]
JObj(f) == [t |-> "obj", v |-> f]
EmptyMap == [k \in {} |-> JNull]

\* the string literals and number literals a completion can contain:
\* token |-> the Python value of the literal
StrLit ==
    [tok \in {"\"symptoms\"", "\"patient_info\"", "\"consultation_reason\"",
              "\"extracted_text\"", "\"age\"", "\"gender\"", "\"fever\"",
              "\"cough\"", "\"checkup\"", "\"female\"", "\"note\"", "\"\""} |->
        CASE tok = "\"symptoms\"" -> <<"symptoms">>
          [] tok = "\"patient_info\"" -> <<"patient_info">>
          [] tok = "\"consultation_reason\"" -> <<"consultation_reason">>
          [] tok = "\"extracted_text\"" -> <<"extracted_text">>
          [] tok = "\"age\"" -> <<"age">>
          [] tok = "\"gender\"" -> <<"gender">>
          [] tok = "\"fever\"" -> <<"fever">>
          [] tok = "\"cough\"" -> <<"cough">>
          [] tok = "\"checkup\"" -> <<"checkup">>
          [] tok = "\"female\"" -> <<"female">>
          [] tok = "\"note\"" -> <<"note">>
          [] tok = "\"\"" -> <<>>]

NumLit == [tok \in {"0", "45", "150", "151"} |->
              CASE tok = "0" -> 0 [] tok = "45" -> 45
                [] tok = "150" -> 150 [] tok = "151" -> 151]

ParseFail == [ok |-> FALSE, val |-> JNull, rest |-> <<>>]

RECURSIVE SkipWs(_)
SkipWs(s) == IF s # <<>> /\ Head(s) \in Whitespace THEN SkipWs(Tail(s)) ELSE s

RECURSIVE ParseValue(_), ParseElements(_, _), ParseMembers(_, _)
\* one JSON value at the front of the tokens
ParseValue(toks0) ==
    LET toks == SkipWs(toks0) IN
    IF toks = <<>> THEN ParseFail
    ELSE LET h == Head(toks) r == SkipWs(Tail(toks)) IN
        IF h = "null" THEN [ok |-> TRUE, val |-> JNull, rest |-> r]
        ELSE IF h \in DOMAIN NumLit THEN [ok |-> TRUE, val |-> JNum(NumLit[h]), rest |-> r]
        ELSE IF h \in DOMAIN StrLit THEN [ok |-> TRUE, val |-> JStr(StrLit[h]), rest |-> r]
        ELSE IF h = "[" THEN
            IF r # <<>> /\ Head(r) = "]"
            THEN [ok |-> TRUE, val |-> JList(<<>>), rest |-> SkipWs(Tail(r))]
            ELSE ParseElements(r, <<>>)
        ELSE IF h = "{" THEN
            IF r # <<>> /\ Head(r) = "}"
            THEN [ok |-> TRUE, val |-> JObj(EmptyMap), rest |-> SkipWs(Tail(r))]
            ELSE ParseMembers(r, EmptyMap)
        ELSE ParseFail

\* the elements of an array after "[", up to and including "]"
ParseElements(toks, acc) ==
    LET e == ParseValue(toks) IN
    IF ~e.ok \/ e.rest = <<>> THEN ParseFail
    ELSE IF Head(e.rest) = "]"
        THEN [ok |-> TRUE, val |-> JList(Append(acc, e.val)), rest |-> SkipWs(Tail(e.rest))]
    ELSE IF Head(e.rest) = ","
        THEN ParseElements(Tail(e.rest), Append(acc, e.val))
    ELSE ParseFail

\* the members of an object after "{", up to and including "}"
ParseMembers(toks0, acc) ==
    LET toks == SkipWs(toks0) IN
    IF toks = <<>> \/ Head(toks) \notin DOMAIN StrLit THEN ParseFail
    ELSE LET key == StrLit[Head(toks)] r == SkipWs(Tail(toks)) IN
        IF r = <<>> \/ Head(r) # ":" THEN ParseFail
        ELSE LET e == ParseValue(Tail(r)) IN
            IF ~e.ok \/ e.rest = <<>> THEN ParseFail
            ELSE LET m == [k \in DOMAIN acc \cup {key} |->
                              IF k = key THEN e.val ELSE acc[k]] IN
                IF Head(e.rest) = "}"
                    THEN [ok |-> TRUE, val |-> JObj(m), rest |-> SkipWs(Tail(e.rest))]
                ELSE IF Head(e.rest) = ","
                    THEN ParseMembers(Tail(e.rest), m)
                ELSE ParseFail

\* json.loads: ok = FALSE stands for JSONDecodeError
JsonLoads(text) ==
    LET p == ParseValue(text) IN
    IF p.ok /\ p.rest = <<>> THEN [ok |-> TRUE, val |-> p.val]
    ELSE [ok |-> FALSE, val |-> JNull]

\* dict.get(key) without the default
GetNoDefault(d, key, default) == IF key \in DOMAIN d THEN d[key] ELSE JNull

\* dict.get(key, default)
Get(d, key, default) == IF key \in DOMAIN d THEN d[key] ELSE default

(* ------------------------------ schemas -------------------------------- *)
\* Python None for an optional str; a str is a token sequence
None == <<"None">>
\* bool(x) of an optional str
Truthy(s) == s # None /\ s # <<>>

EmptyPatientInfo ==
    [name |-> JNull, age |-> JNull, identification_number |-> JNull,
     gender |-> JNull, contact_info |-> JNull]

EmptyExtraction ==
    [symptoms |-> <<>>, patient_info |-> EmptyPatientInfo,
     consultation_reason |-> <<>>, extracted_text |-> <<>>]

\* WorkflowState(input_data=..., processing_metadata=...): the other fields
\* take their defaults
NewWorkflowState(req, meta) ==
    [input_data |-> req, transcription |-> <<>>,
     medical_extraction |-> EmptyExtraction, diagnosis_result |-> EmptyDiagnosis,
     processing_metadata |-> meta, errors |-> <<>>]

(* --------------------------- audio downloader -------------------------- *)
UploadPath == <<"/tmp/upload.mp3">>
DownloadPath == <<"/tmp/tmpdl.mp3">>
RemoteUrl == <<"https://", "clinic.example/a.mp3">>
UploadUrl == <<"file://">> \o UploadPath

\* a download that returns None when it fails
DownloadAudioFileNone(url, dsk, net) ==
    IF StartsWith(url, "file://") THEN
        LET local_path == Remove(url, "file://") IN
        IF local_path \in dsk
        THEN [raised |-> FALSE, path |-> local_path, disk |-> dsk, msg |-> <<>>]
        ELSE [raised |-> FALSE, path |-> None, disk |-> dsk, msg |-> <<>>]
    ELSE IF net = "ok"
    THEN [raised |-> FALSE, path |-> DownloadPath, disk |-> dsk \cup {DownloadPath}, msg |-> <<>>]
    ELSE [raised |-> FALSE, path |-> None, disk |-> dsk, msg |-> <<>>]

\* download_audio_file: net is the behaviour of the remote server and of
\* the write of the body ("ok", "network_error", "http_error", "write_error")
DownloadAudioFile(url, dsk, net) ==
    IF StartsWith(url, "file://") THEN
        LET local_path == Remove(url, "file://") IN
        IF local_path \in dsk
        THEN [raised |-> FALSE, path |-> local_path, disk |-> dsk, msg |-> <<>>]
        ELSE [raised |-> TRUE, path |-> None, disk |-> dsk,
              msg |-> <<"Failed to download audio file: ", "Local file not found: ">> \o local_path]
    ELSE IF net = "network_error" THEN
        [raised |-> TRUE, path |-> None, disk |-> dsk,
         msg |-> <<"Failed to download audio file: ", "Cannot connect to host">>]
    ELSE IF net = "http_error" THEN
        [raised |-> TRUE, path |-> None, disk |-> dsk,
         msg |-> <<"Failed to download audio file: ", "HTTP 404: Failed to download audio file">>]
    ELSE IF net = "write_error" THEN
        [raised |-> TRUE, path |-> None, disk |-> dsk \cup {DownloadPath},
         msg |-> <<"Failed to download audio file: ", "write failed">>]
    ELSE [raised |-> FALSE, path |-> DownloadPath, disk |-> dsk \cup {DownloadPath}, msg |-> <<>>]

\* a cleanup that deletes whatever it is given
CleanupTempFileAlways(dsk, file_path, original_url) == dsk \ {file_path}

\* a cleanup that deletes the file of every non-empty URL, file:// included
CleanupTempFileAnyUrl(dsk, file_path, original_url) ==
    IF file_path \in dsk /\ Truthy(original_url) THEN dsk \ {file_path} ELSE dsk

\* cleanup_temp_file: the files on disk afterwards
CleanupTempFile(dsk, file_path, original_url) ==
    IF file_path \in dsk THEN
        IF Truthy(original_url) /\ ~StartsWith(original_url, "file://") THEN dsk \ {file_path}
        ELSE IF Truthy(original_url) /\ StartsWith(original_url, "file://") THEN dsk
        ELSE dsk \ {file_path}
    ELSE dsk

(* ------------------------------- tracing ------------------------------- *)
\* a span handle is an index into spans; NoSpan stands for None
NoSpan == 0

\* a span that no update has given an output
NoOutput == [k \in {} |-> <<>>]

\* start_trace / start_generation: ok = FALSE is a failure inside the client
StartSpan(enabled, sp, name, ok) ==
    IF enabled /\ ok
    THEN [spans |-> Append(sp, [name |-> name, updates |-> 0, ended |-> 0, output |-> NoOutput]), h |-> Len(sp) + 1]
    ELSE [spans |-> sp, h |-> NoSpan]

\* "if h: try: h.update(...) except: warn"
SpanUpdate(sp, h, uok) ==
    IF h = NoSpan \/ ~uok THEN sp ELSE [sp EXCEPT ![h].updates = @ + 1]

\* the output= argument of h.update(...), kept when the update succeeds
SpanOutput(sp, h, uok, output) ==
    IF h = NoSpan \/ ~uok THEN sp ELSE [sp EXCEPT ![h].output = output]

\* an update that is never followed by end()
SpanUpdateNoEnd(sp, h, uok, eok) ==
    IF h = NoSpan \/ ~uok THEN sp ELSE [sp EXCEPT ![h].updates = @ + 1]

\* "if h: try: h.update(...); h.end() except: warn"
SpanUpdateEnd(sp, h, uok, eok) ==
    IF h = NoSpan \/ ~uok THEN sp
    ELSE IF ~eok THEN [sp EXCEPT ![h].updates = @ + 1]
    ELSE [sp EXCEPT ![h].updates = @ + 1, ![h].ended = @ + 1]

\* which tracing calls of one handler succeed
TraceOutcomes ==
    [start : BOOLEAN, id : BOOLEAN, gen_start : BOOLEAN, gen_update : BOOLEAN,
     gen_end : BOOLEAN, direct_update : BOOLEAN, update : BOOLEAN, end : BOOLEAN,
     flush : BOOLEAN]
AllOk == [k \in DOMAIN [start |-> TRUE, id |-> TRUE, gen_start |-> TRUE,
                         gen_update |-> TRUE, gen_end |-> TRUE, direct_update |-> TRUE,
                         update |-> TRUE, end |-> TRUE, flush |-> TRUE] |-> TRUE]
Faults(tr) == Cardinality({k \in DOMAIN tr : ~tr[k]})
\* the outcomes a handler can see when faults tracing calls have failed already
TracingWith(enabled, faults) ==
    IF enabled THEN {tr \in TraceOutcomes : faults + Faults(tr) <= MaxTraceFaults}
    ELSE {AllOk}

(* ----------------------- medical extraction logic ---------------------- *)
K_SYMPTOMS == <<"symptoms">>
K_PATIENT_INFO == <<"patient_info">>
K_CONSULTATION_REASON == <<"consultation_reason">>
K_EXTRACTED_TEXT == <<"extracted_text">>

\* pydantic: Optional[str]
IsOptStr(v) == v.t \in {"null", "str"}
\* pydantic: Optional[int], ge=0, le=150
IsOptAge(v) == v.t = "null" \/ (v.t = "num" /\ v.v >= 0 /\ v.v <= 150)
\* pydantic: List[str]
IsStrList(v) == v.t = "list" /\ \A i \in 1..Len(v.v) : v.v[i].t = "str"

\* PatientInfo(**d) for a dict d: unknown keys are ignored, missing ones are None
PatientInfoOf(d) ==
    [name |-> Get(d, <<"name">>, JNull), age |-> Get(d, <<"age">>, JNull),
     identification_number |-> Get(d, <<"identification_number">>, JNull),
     gender |-> Get(d, <<"gender">>, JNull),
     contact_info |-> Get(d, <<"contact_info">>, JNull)]

PatientInfoValid(p) ==
    /\ IsOptStr(p.name) /\ IsOptAge(p.age) /\ IsOptStr(p.identification_number)
    /\ IsOptStr(p.gender) /\ IsOptStr(p.contact_info)

\* a fallback that drops the transcription
FallbackExtractionNoText(transcription) ==
    [symptoms |-> << <<"Unable to parse symptoms">> >>,
     patient_info |-> EmptyPatientInfo,
     consultation_reason |-> <<"Unable to parse consultation reason">>,
     extracted_text |-> <<>>]

\* the MedicalExtraction stored when the completion is not JSON
FallbackExtraction(transcription) ==
    [symptoms |-> << <<"Unable to parse symptoms">> >>,
     patient_info |-> EmptyPatientInfo,
     consultation_reason |-> <<"Unable to parse consultation reason">>,
     extracted_text |-> transcription]

\* the JSON-parsing block of medical_extraction_node: raised = TRUE is an
\* exception other than JSONDecodeError, which leaves the block
ExtractFromCompletion(content, transcription) ==
    LET loaded == JsonLoads(Strip(content)) IN
    IF ~loaded.ok THEN
        [raised |-> FALSE, medical_extraction |-> FallbackExtraction(transcription), msg |-> <<>>]
    ELSE IF loaded.val.t # "obj" THEN
        [raised |-> TRUE, medical_extraction |-> EmptyExtraction,
         msg |-> <<"object has no attribute 'get'">>]
    ELSE
        LET extracted_data == loaded.val.v
            pi == Get(extracted_data, K_PATIENT_INFO, JObj(EmptyMap))
            symptoms == Get(extracted_data, K_SYMPTOMS, JList(<<>>))
            reason == Get(extracted_data, K_CONSULTATION_REASON, JStr(<<>>))
            text == Get(extracted_data, K_EXTRACTED_TEXT, JStr(transcription))
        IN  IF pi.t # "obj" THEN
                [raised |-> TRUE, medical_extraction |-> EmptyExtraction,
                 msg |-> <<"argument after ** must be a mapping">>]
            ELSE IF ~PatientInfoValid(PatientInfoOf(pi.v)) THEN
                [raised |-> TRUE, medical_extraction |-> EmptyExtraction,
                 msg |-> <<"validation error for PatientInfo">>]
            ELSE IF ~(IsStrList(symptoms) /\ reason.t = "str" /\ text.t = "str") THEN
                [raised |-> TRUE, medical_extraction |-> EmptyExtraction,
                 msg |-> <<"validation error for MedicalExtraction">>]
            ELSE
                [raised |-> FALSE,
                 medical_extraction |->
                    [symptoms |-> [i \in 1..Len(symptoms.v) |-> symptoms.v[i].v],
                     patient_info |-> PatientInfoOf(pi.v),
                     consultation_reason |-> reason.v,
                     extracted_text |-> text.v],
                 msg |-> <<>>]

(* ------------------------------ workflow ------------------------------- *)
END == "__end__"
EntryPoint == "transcription"

\* a graph wired in another order
EdgeMisordered(n) ==
    CASE n = "transcription" -> "diagnosis"
      [] n = "diagnosis" -> "medical_extraction"
      [] n = "medical_extraction" -> END

\* the edges of the compiled graph
Edge(n) ==
    CASE n = "transcription" -> "medical_extraction"
      [] n = "medical_extraction" -> "diagnosis"
      [] n = "diagnosis" -> END

\* the engine merges a node's returned dict into the state, key by key
ApplyUpdate(st, upd) ==
    [k \in DOMAIN st |-> IF k \in DOMAIN upd THEN upd[k] ELSE st[k]]

\* dict[key] = value
Put(d, key, value) == [k \in DOMAIN d \cup {key} |-> IF k = key THEN value ELSE d[k]]

NoResult == [none |-> TRUE]
NoUpdate == [k \in {} |-> 0]

\* a result that takes the extraction of a fresh state
MakeResultFresh(final, total_time, t) ==
    [transcription |-> final.transcription,
     medical_extraction |-> EmptyExtraction,
     diagnosis_result |-> final.diagnosis_result,
     processing_time |-> total_time,
     timestamp |-> t]

\* ProcessingResult(...) built from the final state of the chain
MakeResult(final, total_time, t) ==
    [transcription |-> final.transcription,
     medical_extraction |-> final.medical_extraction,
     diagnosis_result |-> final.diagnosis_result,
     processing_time |-> total_time,
     timestamp |-> t]

\* the original exception re-raised as it is
WrapFailureBare(e) == e

\* the message of the exception process_medical_request raises
WrapFailure(e) == <<"Workflow execution failed: ">> \o e

\* a handler that logs the error and raises again
TranscriptionExceptRaises(st, e) ==
    [raised |-> TRUE, update |-> [errors |-> Append(st.errors, <<"Transcription failed: ">> \o e)]]

\* a handler that also stores a placeholder extraction
ExtractionExceptFallback(st, e) ==
    [raised |-> FALSE,
     update |-> [errors |-> Append(st.errors, <<"Medical extraction failed: ">> \o e),
                 medical_extraction |->
                    [symptoms |-> << <<"Unable to parse symptoms">> >>,
                     patient_info |-> st.medical_extraction.patient_info,
                     consultation_reason |-> <<>>,
                     extracted_text |-> st.transcription]]]

\* a handler that records the error twice
TranscriptionExceptTwice(st, e) ==
    [raised |-> FALSE,
     update |-> [errors |-> Append(Append(st.errors, <<"Transcription failed: ">> \o e),
                                   <<"Transcription failed: ">> \o e)]]

\* a handler that starts a new errors list
ExtractionExceptReset(st, e) ==
    [raised |-> FALSE, update |-> [errors |-> <<<<"Medical extraction failed: ">> \o e>>]]

\* a handler that also stores a placeholder transcription
TranscriptionExceptPlaceholder(st, e) ==
    [raised |-> FALSE,
     update |-> [errors |-> Append(st.errors, <<"Transcription failed: ">> \o e),
                 transcription |-> <<"Transcription unavailable">>]]

\* a handler that also records the time of the failed stage
ExtractionExceptTimed(st, e) ==
    [raised |-> FALSE,
     update |-> [errors |-> Append(st.errors, <<"Medical extraction failed: ">> \o e),
                 processing_metadata |->
                    [k \in DOMAIN st.processing_metadata \cup {"extraction_time"} |->
                        IF k = "extraction_time" THEN 1 ELSE st.processing_metadata[k]]]]

\* what the except block of each stage returns
TranscriptionExcept(st, e) ==
    [raised |-> FALSE, update |-> [errors |-> Append(st.errors, <<"Transcription failed: ">> \o e)]]
ExtractionExcept(st, e) ==
    [raised |-> FALSE, update |-> [errors |-> Append(st.errors, <<"Medical extraction failed: ">> \o e)]]
DiagnosisExcept(st, e) ==
    [raised |-> FALSE, update |-> [errors |-> Append(st.errors, <<"Diagnosis generation failed: ">> \o e)]]

\* a direct-text branch that records no timing
DirectTextUntimed(st) ==
    [transcription |-> st.input_data.text,
     processing_metadata |-> st.processing_metadata]

\* the direct-text branch of transcription_node
DirectText(st) ==
    [transcription |-> st.input_data.text,
     processing_metadata |-> Put(st.processing_metadata, "transcription_time", 0)]

(* ------------------------------- stages -------------------------------- *)
\* the words of the texts with their numbers of characters
WordChars ==
    {<<"fever", 5>>, <<"cough", 5>>, <<"headache", 8>>, <<"x", 1>>, <<"...", 3>>,
     <<"<99 letters>", 99>>, <<"<100 letters>", 100>>, <<"Flu", 3>>,
     <<"Rest", 4>>, <<"Follow", 6>>, <<"up", 2>>, <<"no", 2>>, <<"headers", 7>>,
     <<"diagnosis:", 10>>, <<H_DIAGNOSIS, 10>>, <<H_TREATMENT, 15>>,
     <<H_RECOMMENDATIONS, 16>>,
     <<"<6 letters>", 6>>, <<"<7 letters>", 7>>,
     <<"<8 letters>", 8>>, <<"<9 letters>", 9>>, <<"<10 letters>", 10>>,
     <<"<11 letters>", 11>>, <<"<9996 letters>", 9996>>, <<"<9997 letters>", 9997>>,
     <<"<9998 letters>", 9998>>, <<"<9999 letters>", 9999>>,
     <<"<10000 letters>", 10000>>, <<"<10001 letters>", 10001>>}
CharsOf(tok) == IF tok \in Whitespace THEN 1 ELSE (CHOOSE p \in WordChars : p[1] = tok)[2]
\* len(s)
RECURSIVE CharLen(_)
CharLen(s) == IF s = <<>> THEN 0 ELSE CharsOf(Head(s)) + CharLen(Tail(s))

TraceLimit == 200
\* s[:n]; in the texts longer than TraceLimit a word ends at the limit, so
\* that the cut never falls inside a word
RECURSIVE TakeChars(_, _)
TakeChars(s, n) ==
    IF s = <<>> \/ n <= 0 THEN <<>>
    ELSE IF CharsOf(Head(s)) <= n
        THEN <<Head(s)>> \o TakeChars(Tail(s), n - CharsOf(Head(s)))
    ELSE <<"<cut word>">>

\* a trace copy that is never shortened
TraceCopyFull(field) == field

\* field[:200] + "..." if len(field) > 200 else field
TraceCopy(field) ==
    IF CharLen(field) > TraceLimit THEN TakeChars(field, TraceLimit) \o <<"...">>
    ELSE field

\* the output attached to the span of the diagnosis stage
TraceOutput(diagnosis_result) ==
    [diagnosis |-> TraceCopy(diagnosis_result.diagnosis),
     treatment_plan |-> TraceCopy(diagnosis_result.treatment_plan),
     recommendations |-> TraceCopy(diagnosis_result.recommendations)]

\* no answer: the call returns nothing that is used
NoResponse == [raised |-> FALSE, text |-> None]
\* one call of a collaborator: the callee, its argument and its answer
Call(op, arg, answer) == [op |-> op, arg |-> arg, answer |-> answer]

\* cleanup_temp_file: the calls of os.unlink it makes
CleanupUnlinks(dsk, file_path, original_url) ==
    IF file_path \in dsk /\ ~(Truthy(original_url) /\ StartsWith(original_url, "file://"))
    THEN <<Call("os.unlink", file_path, NoResponse)>>
    ELSE <<>>

\* str(n) of an integer of the completions
NumStr(n) == <<CHOOSE tok \in DOMAIN NumLit : NumLit[tok] = n>>

\* sep.join(parts)
RECURSIVE Join(_, _)
Join(parts, sep) ==
    IF parts = <<>> THEN <<>>
    ELSE IF Len(parts) = 1 THEN parts[1]
    ELSE parts[1] \o sep \o Join(Tail(parts), sep)

\* the f-string of the diagnosis prompt around its four values
PromptText(patient_age, patient_gender, consultation_reason, symptoms_text) ==
    <<"Based on the following medical information", NL, "- Age: ">> \o patient_age
        \o <<NL, "- Gender: ">> \o patient_gender
        \o <<NL, "- Consultation Reason: ">> \o consultation_reason
        \o <<NL, "Symptoms: ">> \o symptoms_text
        \o <<NL, "Please provide:", NL, "Format your response as:">>

\* diagnosis_prompt: x or default takes the default for every falsy x
DiagnosisPrompt(st) ==
    LET me == st.medical_extraction
        symptoms_text ==
            IF me.symptoms # <<>> THEN Join(me.symptoms, <<",", SP>>)
            ELSE <<"No specific symptoms identified">>
        patient_age ==
            IF me.patient_info.age.t = "num" /\ me.patient_info.age.v # 0
            THEN NumStr(me.patient_info.age.v) ELSE <<"unknown">>
        patient_gender ==
            IF me.patient_info.gender.t = "str" /\ me.patient_info.gender.v # <<>>
            THEN me.patient_info.gender.v ELSE <<"unknown">>
        consultation_reason ==
            IF me.consultation_reason # <<>> THEN me.consultation_reason
            ELSE <<"General consultation">>
    IN  PromptText(patient_age, patient_gender, consultation_reason, symptoms_text)

\* a choice that prefers the audio URL to the text
InputBranchAudioFirst(input_data) ==
    IF Truthy(input_data.audio_url) THEN "audio"
    ELSE IF Truthy(input_data.text) THEN "direct_text"
    ELSE "none"

\* the if / elif / else of transcription_node over the request
InputBranch(input_data) ==
    IF Truthy(input_data.text) THEN "direct_text"
    ELSE IF Truthy(input_data.audio_url) THEN "audio"
    ELSE "none"

\* transcription_node run on the state st: the returned dict (or the
\* exception that leaves the node), the disk, the spans and the clock after it.
\* tr: which tracing calls succeed; net: the download; wh: the Whisper call
TranscriptionRun(enabled, st, dsk, sp, t, tr, net, wh) ==
    LET trace == StartSpan(enabled, sp, "transcription_node", tr.start) IN
    IF InputBranch(st.input_data) = "direct_text" THEN
        [outcome |-> [raised |-> FALSE, update |-> DirectText(st)],
         disk |-> dsk,
         spans |-> SpanUpdateEnd(SpanUpdate(trace.spans, trace.h, tr.direct_update),
                                 trace.h, tr.update, tr.end),
         calls |-> <<>>,
         now |-> t]
    ELSE IF InputBranch(st.input_data) = "audio" THEN
        LET generation == StartSpan(enabled, trace.spans, "whisper_transcription", tr.gen_start)
            dl == DownloadAudioFile(st.input_data.audio_url, dsk, net)
            download == Call("download_audio_file", st.input_data.audio_url,
                             [raised |-> dl.raised, path |-> dl.path, msg |-> dl.msg])
        IN  IF dl.raised THEN
                [outcome |-> TranscriptionExcept(st, dl.msg),
                 disk |-> dl.disk,
                 spans |-> SpanUpdateEnd(generation.spans, trace.h, tr.update, tr.end),
                 calls |-> <<download>>,
                 now |-> t + 1]
            ELSE IF wh.raised THEN
                [outcome |-> TranscriptionExcept(st, <<"transcription API error">>),
                 disk |-> dl.disk,
                 spans |-> SpanUpdateEnd(generation.spans, trace.h, tr.update, tr.end),
                 calls |-> <<download, Call("transcriptions.create", dl.path, wh)>>,
                 now |-> t + 2]
            ELSE
                [outcome |->
                    [raised |-> FALSE,
                     update |->
                        [transcription |-> wh.text,
                         processing_metadata |->
                            Put(st.processing_metadata, "transcription_time", (t + 2) - t)]],
                 disk |-> CleanupTempFile(dl.disk, dl.path, st.input_data.audio_url),
                 spans |-> SpanUpdateEnd(
                              SpanUpdateEnd(generation.spans, generation.h,
                                            tr.gen_update, tr.gen_end),
                              trace.h, tr.update, tr.end),
                 calls |-> <<download, Call("transcriptions.create", dl.path, wh),
                             Call("cleanup_temp_file", dl.path, NoResponse)>>
                           \o CleanupUnlinks(dl.disk, dl.path, st.input_data.audio_url),
                 now |-> t + 2]
    ELSE
        [outcome |-> TranscriptionExcept(st, <<"No audio URL or text provided">>),
         disk |-> dsk,
         spans |-> SpanUpdateEnd(trace.spans, trace.h, tr.update, tr.end),
         calls |-> <<>>,
         now |-> t]

\* medical_extraction_node; llm: the completion call
ExtractionRun(enabled, st, sp, t, tr, llm) ==
    LET trace == StartSpan(enabled, sp, "medical_extraction_node", tr.start)
        generation == StartSpan(enabled, trace.spans, "medical_extraction_llm", tr.gen_start)
        invoke == Call("llm.invoke", st.transcription, llm)
    IN  IF llm.raised THEN
            [outcome |-> ExtractionExcept(st, <<"completion API error">>),
             spans |-> SpanUpdateEnd(generation.spans, trace.h, tr.update, tr.end),
             calls |-> <<invoke>>,
             now |-> t + 1]
        ELSE
            LET sp1 == SpanUpdateEnd(generation.spans, generation.h, tr.gen_update, tr.gen_end)
                ex == ExtractFromCompletion(llm.text, st.transcription)
            IN  IF ex.raised THEN
                    [outcome |-> ExtractionExcept(st, ex.msg),
                     spans |-> SpanUpdateEnd(sp1, trace.h, tr.update, tr.end),
                     calls |-> <<invoke>>,
                     now |-> t + 1]
                ELSE
                    [outcome |->
                        [raised |-> FALSE,
                         update |->
                            [medical_extraction |-> ex.medical_extraction,
                             processing_metadata |->
                                Put(st.processing_metadata, "extraction_time", (t + 1) - t)]],
                     spans |-> SpanUpdateEnd(sp1, trace.h, tr.update, tr.end),
                     calls |-> <<invoke>>,
                     now |-> t + 1]

\* diagnosis_node; llm: the completion call
DiagnosisRun(enabled, st, sp, t, tr, llm) ==
    LET trace == StartSpan(enabled, sp, "diagnosis_node", tr.start)
        generation == StartSpan(enabled, trace.spans, "diagnosis_generation_llm", tr.gen_start)
        invoke == Call("llm.invoke", DiagnosisPrompt(st), llm)
    IN  IF llm.raised THEN
            [outcome |-> DiagnosisExcept(st, <<"completion API error">>),
             spans |-> SpanUpdateEnd(generation.spans, trace.h, tr.update, tr.end),
             calls |-> <<invoke>>,
             now |-> t + 1]
        ELSE
            [outcome |->
                [raised |-> FALSE,
                 update |->
                    [diagnosis_result |-> ParseDiagnosis(llm.text),
                     processing_metadata |->
                        Put(st.processing_metadata, "diagnosis_time", (t + 1) - t)]],
             spans |-> SpanUpdateEnd(
                          SpanOutput(
                              SpanUpdateEnd(generation.spans, generation.h,
                                            tr.gen_update, tr.gen_end),
                              trace.h, tr.update, TraceOutput(ParseDiagnosis(llm.text))),
                          trace.h, tr.update, tr.end),
             calls |-> <<invoke>>,
             now |-> t + 1]

(* ------------------------------- inputs -------------------------------- *)
TextInputs == {<<>>, <<"fever", SP, "cough">>}
Requests == [audio_url : {None, RemoteUrl, UploadUrl}, text : {None} \cup TextInputs]
NetOutcomes == {"ok", "network_error", "http_error", "write_error"}
Transcripts == {<<"headache">>}
Raises == [raised |-> TRUE, text |-> <<>>]
Returns(texts) == {[raised |-> FALSE, text |-> t] : t \in texts}

GoodJson ==
    <<"{", "\"symptoms\"", ":", "[", "\"fever\"", ",", SP, "\"cough\"", "]", ",", NL,
      "\"patient_info\"", ":", "{", "\"age\"", ":", "45", ",", "\"gender\"", ":", "\"female\"", "}", ",", NL,
      "\"consultation_reason\"", ":", "\"checkup\"", ",", NL,
      "\"extracted_text\"", ":", "\"note\"", "}">>
ExtractionCompletions ==
    {GoodJson, <<"{", "}">>, <<"Sure", SP, "{", "}">>, <<"[", "]">>}

SpecExample ==
    <<H_DIAGNOSIS, NL, "Flu", NL, H_TREATMENT, NL, "Rest", NL,
      H_RECOMMENDATIONS, NL, "Follow", SP, "up">>
DiagnosisCompletions == {SpecExample, <<"no", SP, "headers">>}

Defects == {<<"stage defect">>}

(* ----------------- completions of the extraction prompt ---------------- *)
\* members of the JSON object the prompt asks for: the text of the member,
\* the field value the schema gives it (valid) or the fact that the schema
\* rejects it; text = <<>> is a missing key
SymptomsMembers ==
    {[text |-> <<>>, valid |-> TRUE, value |-> <<>>],
     [text |-> <<"\"symptoms\"", ":", "[", "]">>, valid |-> TRUE, value |-> <<>>],
     [text |-> <<"\"symptoms\"", ":", SP, "[", "\"fever\"", "]">>, valid |-> TRUE,
      value |-> << <<"fever">> >>],
     [text |-> <<"\"symptoms\"", ":", "[", "\"fever\"", ",", SP, "\"cough\"", "]">>,
      valid |-> TRUE, value |-> << <<"fever">>, <<"cough">> >>],
     [text |-> <<"\"symptoms\"", ":", "null">>, valid |-> FALSE, value |-> <<>>],
     [text |-> <<"\"symptoms\"", ":", "[", "45", "]">>, valid |-> FALSE, value |-> <<>>]}

PatientOf(age, gender) == [EmptyPatientInfo EXCEPT !.age = age, !.gender = gender]
PatientInfoMembers ==
    {[text |-> <<>>, valid |-> TRUE, value |-> EmptyPatientInfo],
     [text |-> <<"\"patient_info\"", ":", "{", "}">>, valid |-> TRUE, value |-> EmptyPatientInfo],
     [text |-> <<"\"patient_info\"", ":", "{", "\"age\"", ":", "45", "}">>, valid |-> TRUE,
      value |-> PatientOf(JNum(45), JNull)],
     [text |-> <<"\"patient_info\"", ":", "{", "\"age\"", ":", "0", ",", "\"gender\"", ":",
                 "\"female\"", "}">>, valid |-> TRUE,
      value |-> PatientOf(JNum(0), JStr(<<"female">>))],
     [text |-> <<"\"patient_info\"", ":", "{", "\"age\"", ":", "150", "}">>, valid |-> TRUE,
      value |-> PatientOf(JNum(150), JNull)],
     [text |-> <<"\"patient_info\"", ":", "{", "\"age\"", ":", "null", ",", NL, "\"gender\"",
                 ":", "null", "}">>, valid |-> TRUE, value |-> EmptyPatientInfo],
     [text |-> <<"\"patient_info\"", ":", "{", "\"note\"", ":", "\"note\"", "}">>,
      valid |-> TRUE, value |-> EmptyPatientInfo],
     [text |-> <<"\"patient_info\"", ":", "{", "\"age\"", ":", "151", "}">>, valid |-> FALSE,
      value |-> EmptyPatientInfo],
     [text |-> <<"\"patient_info\"", ":", "{", "\"age\"", ":", "\"note\"", "}">>,
      valid |-> FALSE, value |-> EmptyPatientInfo],
     [text |-> <<"\"patient_info\"", ":", "{", "\"gender\"", ":", "45", "}">>, valid |-> FALSE,
      value |-> EmptyPatientInfo],
     [text |-> <<"\"patient_info\"", ":", "null">>, valid |-> FALSE, value |-> EmptyPatientInfo]}

ReasonMembers ==
    {[text |-> <<>>, valid |-> TRUE, value |-> <<>>],
     [text |-> <<"\"consultation_reason\"", ":", "\"checkup\"">>, valid |-> TRUE,
      value |-> <<"checkup">>],
     [text |-> <<"\"consultation_reason\"", ":", "\"\"">>, valid |-> TRUE, value |-> <<>>],
     [text |-> <<"\"consultation_reason\"", ":", "null">>, valid |-> FALSE, value |-> <<>>]}

\* for extracted_text a missing key takes the transcription, not value
TextMembers ==
    {[text |-> <<>>, valid |-> TRUE, value |-> <<>>],
     [text |-> <<"\"extracted_text\"", ":", "\"note\"">>, valid |-> TRUE, value |-> <<"note">>],
     [text |-> <<"\"extracted_text\"", ":", "45">>, valid |-> FALSE, value |-> <<>>]}

RECURSIVE JoinMembers(_)
JoinMembers(ms) ==
    IF ms = <<>> THEN <<>>
    ELSE IF Head(ms) = <<>> THEN JoinMembers(Tail(ms))
    ELSE LET rest == JoinMembers(Tail(ms)) IN
         IF rest = <<>> THEN Head(ms) ELSE Head(ms) \o <<",">> \o rest

\* the text of the object with the given members
ObjectText(s, p, r, t) == <<"{">> \o JoinMembers(<<s.text, p.text, r.text, t.text>>) \o <<"}">>

ObjectCases == SymptomsMembers \X PatientInfoMembers \X ReasonMembers \X TextMembers
JsonObjectTexts == {ObjectText(c[1], c[2], c[3], c[4]) : c \in ObjectCases}
\* valid JSON that is not an object
OtherJsonTexts ==
    {<<"[", "]">>, <<"45">>, <<"\"note\"">>, <<"null">>, <<"[", "{", "}", "]">>}
\* valid JSON with blanks around it
PaddedJsonTexts == {<<NL, SP>> \o GoodJson \o <<NL>>}
\* text that json.loads rejects: prose, a code fence, a trailing comma, an
\* unquoted key, text after the value, and every proper prefix of GoodJson
NonJsonTexts ==
    {<<"Sure", SP, "{", "}">>, <<"~~~json", NL, "{", "}", NL, "~~~">>,
     <<"{", "\"symptoms\"", ":", "[", "]", ",", "}">>,
     <<"{", "symptoms", ":", "[", "]", "}">>, <<"{", "}", SP, "done">>,
     <<"I", SP, "cannot">>, <<"{", "\"symptoms\"", "}">>, <<"[", "\"fever\"", ",", "]">>}
    \cup {SubSeq(GoodJson, 1, n) : n \in 0..(Len(GoodJson) - 1)}
AllExtractionCompletions ==
    JsonObjectTexts \cup OtherJsonTexts \cup PaddedJsonTexts \cup NonJsonTexts

(* ----------------- completions of the diagnosis prompt ----------------- *)
ParserAlphabet == {H_DIAGNOSIS, H_TREATMENT, H_RECOMMENDATIONS, "diagnosis:", SP, NL, "Flu"}
\* every text of at most MaxLen tokens
FreeTexts == UNION {[1..n -> ParserAlphabet] : n \in 0..MaxLen}

\* the body lines offered under each header
DiagnosisLines == {<<"Flu">>, <<SP, "Flu", SP>>, <<>>}
TreatmentLines == {<<"Rest">>, <<"diagnosis:", SP, "Rest">>, <<SP>>}
RecommendationLines == {<<"Follow", SP, "up">>, <<"up">>, <<>>}
BodiesOf(lines) == UNION {[1..n -> lines] : n \in 0..MaxBody}

\* a header line followed by its body lines
RECURSIVE Section(_, _)
Section(h, body) ==
    IF body = <<>> THEN <<h>>
    ELSE Section(h, SubSeq(body, 1, Len(body) - 1)) \o <<NL>> \o body[Len(body)]

SectionedTexts ==
    {Section(H_DIAGNOSIS, b1) \o <<NL>> \o Section(H_TREATMENT, b2) \o <<NL>>
        \o Section(H_RECOMMENDATIONS, b3) :
        b1 \in BodiesOf(DiagnosisLines), b2 \in BodiesOf(TreatmentLines),
        b3 \in BodiesOf(RecommendationLines)}
\* a line before the first header, one header line, then lines without an
\* exact header
PreambleTexts ==
    {<<p, NL, h, NL>> \o b :
        p \in {"Flu", "diagnosis:"}, h \in Headers,
        b \in {<<"diagnosis:", "Flu">>, <<SP, "Flu", SP, NL, "diagnosis:">>, <<"Flu", NL, NL, "Flu">>}}
AllDiagnosisCompletions == FreeTexts \cup SectionedTexts \cup PreambleTexts


(* --------------------------- concurrent calls -------------------------- *)
\* the calls of process_medical_request the server runs at the same time
RunIds == {"a", "b"}
\* the local variables of one call before it starts
IdleRun ==
    [pc |-> "idle", request |-> [audio_url |-> None, text |-> None], start_time |-> 0,
     state |-> NewWorkflowState([audio_url |-> None, text |-> None], NoUpdate),
     node |-> EntryPoint, node_state |-> NewWorkflowState([audio_url |-> None, text |-> None], NoUpdate),
     update |-> NoUpdate,
     responses |-> [n \in {"transcription", "medical_extraction", "diagnosis"} |-> NoResponse],
     result |-> NoResult]

(* ------------------------------- metrics ------------------------------- *)
\* MetricsTracker(): no request recorded yet
MetricsTracker ==
    [request_counts |-> [k \in {} |-> 0],
     response_times |-> [k \in {} |-> <<>>],
     processing_costs |-> <<>>,
     total_requests |-> 0,
     successful_requests |-> 0,
     failed_requests |-> 0]

(* -------------------------------- state -------------------------------- *)
VARIABLES
    langfuse_enabled,  \* module-level flag, fixed when the process starts
    pc,                \* position of process_medical_request
    request,           \* the ProcessingRequest of the run
    start_time,        \* start_time of process_medical_request
    workflow_trace,    \* handle of the workflow-level span
    state,             \* the WorkflowState owned by the engine
    node,              \* the node the engine runs next / is running
    node_state,        \* the WorkflowState handed to the running node
    update,            \* the dict the node returned
    response,          \* the last answer of a capability (Whisper or completion)
    exc,               \* the exception that left the chain
    result,            \* the ProcessingResult returned
    failure,           \* the message of the exception raised to the caller
    disk,              \* the temporary files that exist
    spans,             \* the spans opened on the tracing client
    flushes,           \* calls of client.flush()
    now,               \* the clock
    trace_faults,      \* tracing calls that have failed in the run
    log,               \* the stage events of the run, in order
    runs,              \* the calls of process_medical_request that run concurrently
    calls,             \* the calls of collaborators made in the run, in order
    metrics            \* the module-level MetricsTracker of the server

vars == <<langfuse_enabled, pc, request, start_time, workflow_trace, state, node,
          node_state, update, response, exc, result, failure, disk, spans,
          flushes, now, trace_faults, log, runs, calls, metrics>>

\* the state before a call: enabled, the values the tracing flag may have;
\* disks, the sets of files that may exist
InitOn(enabled, disks) ==
    /\ langfuse_enabled \in enabled
    /\ pc = "idle"
    /\ request = [audio_url |-> None, text |-> None]
    /\ start_time = 0
    /\ workflow_trace = NoSpan
    /\ state = NewWorkflowState([audio_url |-> None, text |-> None], NoUpdate)
    /\ node = EntryPoint
    /\ node_state = NewWorkflowState([audio_url |-> None, text |-> None], NoUpdate)
    /\ update = NoUpdate
    /\ response = NoResponse
    /\ exc = None
    /\ result = NoResult
    /\ failure = None
    /\ disk \in disks
    /\ spans = <<>>
    /\ flushes = 0
    /\ now = 0
    /\ trace_faults = 0
    /\ log = <<>>
    /\ runs = [r \in RunIds |-> IdleRun]
    /\ calls = <<>>
    /\ metrics = MetricsTracker

InitWith(enabled) == InitOn(enabled, {{}, {UploadPath}})

(* ------------------------------- actions ------------------------------- *)
\* process_medical_request up to the call of ainvoke
Begin(reqs) ==
    /\ pc = "idle"
    /\ \E req \in reqs, tr \in TracingWith(langfuse_enabled, trace_faults) :
        LET trace == StartSpan(langfuse_enabled, spans, "medical_workflow", tr.start)
            meta == [k \in {"start_time", "langfuse_trace_id"} |->
                        IF k = "start_time" THEN now ELSE trace.h]
        IN  /\ request' = req
            /\ start_time' = now
            /\ spans' = trace.spans
            /\ workflow_trace' = trace.h
            /\ trace_faults' = trace_faults + Faults(tr)
            /\ IF trace.h # NoSpan /\ ~tr.id
               THEN /\ pc' = "raised"
                    /\ failure' = <<"span has no id">>
                    /\ UNCHANGED <<state, node>>
               ELSE /\ pc' = "ready"
                    /\ state' = NewWorkflowState(req, meta)
                    /\ node' = EntryPoint
                    /\ UNCHANGED failure
    /\ UNCHANGED <<calls, runs, metrics, langfuse_enabled, node_state, update, response, exc, result,
                   disk, flushes, now, log>>

\* the engine hands the current state to the next node
StartNode ==
    /\ pc = "ready"
    /\ pc' = "in_node"
    /\ node_state' = state
    /\ log' = Append(log, <<"start", node>>)
    /\ UNCHANGED <<calls, runs, metrics, langfuse_enabled, request, start_time, workflow_trace, state, node,
                   update, response, exc, result, failure, disk, spans, flushes, now,
                   trace_faults>>

\* the node has run: it returned a dict, or an exception left it
NodeDone(r, resp, tr) ==
    /\ spans' = r.spans
    /\ now' = r.now
    /\ response' = resp
    /\ trace_faults' = trace_faults + Faults(tr)
    /\ calls' = calls \o r.calls
    /\ IF r.outcome.raised
       THEN /\ pc' = "escaped"
            /\ exc' = <<"unhandled in ", node>>
            /\ log' = Append(log, <<"raise", node>>)
            /\ UNCHANGED update
       ELSE /\ pc' = "node_done"
            /\ update' = r.outcome.update
            /\ log' = Append(log, <<"return", node>>)
            /\ UNCHANGED exc
    /\ UNCHANGED <<runs, metrics, langfuse_enabled, request, start_time, workflow_trace, state, node,
                   node_state, result, failure, flushes>>

TranscriptionNode ==
    /\ pc = "in_node" /\ node = "transcription"
    /\ \E tr \in TracingWith(langfuse_enabled, trace_faults), net \in NetOutcomes, wh \in {Raises} \cup Returns(Transcripts) :
        LET r == TranscriptionRun(langfuse_enabled, node_state, disk, spans, now, tr, net, wh) IN
        /\ disk' = r.disk
        /\ NodeDone(r, wh, tr)

MedicalExtractionNode(contents) ==
    /\ pc = "in_node" /\ node = "medical_extraction"
    /\ \E tr \in TracingWith(langfuse_enabled, trace_faults), llm \in {Raises} \cup Returns(contents) :
        /\ NodeDone(ExtractionRun(langfuse_enabled, node_state, spans, now, tr, llm), llm, tr)
        /\ UNCHANGED disk

DiagnosisNode(texts) ==
    /\ pc = "in_node" /\ node = "diagnosis"
    /\ \E tr \in TracingWith(langfuse_enabled, trace_faults), llm \in {Raises} \cup Returns(texts) :
        /\ NodeDone(DiagnosisRun(langfuse_enabled, node_state, spans, now, tr, llm), llm, tr)
        /\ UNCHANGED disk

\* an exception leaves the running stage past its own handler
AinvokeRaises ==
    /\ pc = "in_node"
    /\ \E e \in Defects :
        /\ pc' = "escaped"
        /\ exc' = e
        /\ log' = Append(log, <<"raise", node>>)
    /\ UNCHANGED <<calls, runs, metrics, langfuse_enabled, request, start_time, workflow_trace, state, node,
                   node_state, update, response, result, failure, disk, spans,
                   flushes, now, trace_faults>>

\* the engine merges the returned dict and follows the edge
ApplyWrites ==
    /\ pc = "node_done"
    /\ state' = ApplyUpdate(state, update)
    /\ node' = Edge(node)
    /\ pc' = IF Edge(node) = END THEN "chain_done" ELSE "ready"
    /\ log' = Append(log, <<"merge", node>>)
    /\ UNCHANGED <<calls, runs, metrics, langfuse_enabled, request, start_time, workflow_trace, node_state,
                   update, response, exc, result, failure, disk, spans, flushes, now,
                   trace_faults>>

\* process_medical_request after ainvoke returned
Finish ==
    /\ pc = "chain_done"
    /\ \E tr \in TracingWith(langfuse_enabled, trace_faults) :
        /\ result' = MakeResult(state, now - start_time, now)
        /\ spans' = SpanUpdateEnd(spans, workflow_trace, tr.update, tr.end)
        /\ flushes' = IF langfuse_enabled /\ tr.flush THEN flushes + 1 ELSE flushes
        /\ trace_faults' = trace_faults + Faults(tr)
    /\ pc' = "returned"
    /\ UNCHANGED <<calls, runs, metrics, langfuse_enabled, request, start_time, workflow_trace, state, node,
                   node_state, update, response, exc, failure, disk, now, log>>

\* the except block of process_medical_request
HandleFailure ==
    /\ pc = "escaped"
    /\ \E tr \in TracingWith(langfuse_enabled, trace_faults) :
        /\ spans' = SpanUpdateEnd(spans, workflow_trace, tr.update, tr.end)
        /\ flushes' = IF langfuse_enabled /\ tr.flush THEN flushes + 1 ELSE flushes
        /\ trace_faults' = trace_faults + Faults(tr)
    /\ failure' = WrapFailure(exc)
    /\ pc' = "raised"
    /\ UNCHANGED <<calls, runs, metrics, langfuse_enabled, request, start_time, workflow_trace, state, node,
                   node_state, update, response, exc, result, disk, now, log>>

NextWith(reqs, contents, texts) ==
    \/ Begin(reqs)
    \/ StartNode
    \/ TranscriptionNode
    \/ MedicalExtractionNode(contents)
    \/ DiagnosisNode(texts)
    \/ AinvokeRaises
    \/ ApplyWrites
    \/ Finish
    \/ HandleFailure

Init == InitWith(BOOLEAN)
Next == NextWith(Requests, ExtractionCompletions, DiagnosisCompletions)
Spec == Init /\ [][Next]_vars

\* the workflow on text and empty requests, tracing off, with every
\* completion of the extraction prompt
UnitRequests == [audio_url : {None}, text : {None, <<"fever", SP, "cough">>}]
NextExtraction == NextWith(UnitRequests, AllExtractionCompletions, {SpecExample})
SpecExtraction == InitWith({FALSE}) /\ [][NextExtraction]_vars

\* the same with every completion of the diagnosis prompt
DiagnosisRequests == {[audio_url |-> None, text |-> <<"fever", SP, "cough">>]}
NextDiagnosis == NextWith(DiagnosisRequests, {GoodJson}, AllDiagnosisCompletions)
SpecDiagnosis == InitWith({FALSE}) /\ [][NextDiagnosis]_vars

(* ------------------------------ properties ----------------------------- *)
StageOrder == <<"transcription", "medical_extraction", "diagnosis">>
IsStart(e) == e[1] = "start"
\* the stages started so far, in order
Started == [i \in 1..Len(SelectSeq(log, IsStart)) |-> SelectSeq(log, IsStart)[i][2]]
\* the run entered the chain and the chain was stopped by an injected defect
DefectEscaped == pc \in {"escaped", "raised"} /\ exc \in Defects
HasError(st, prefix) == \E i \in 1..Len(st.errors) : Head(st.errors[i]) = prefix

\* C1: the stages start in the order transcription, medical_extraction,
\* diagnosis, each at most once; a stage other than the first starts only
\* directly after the previous stage returned and its update was merged, and
\* the state it is handed holds every value of that update.
C1_StagesInOrder ==
    /\ Len(Started) <= 3
    /\ \A i \in 1..Len(Started) : Started[i] = StageOrder[i]
    /\ \A i \in 1..Len(log) :
        IsStart(log[i]) =>
            IF log[i][2] = "transcription" THEN i = 1
            ELSE /\ i >= 4
                 /\ \E k \in 2..3 :
                     /\ log[i][2] = StageOrder[k]
                     /\ log[i - 1] = <<"merge", StageOrder[k - 1]>>
                     /\ log[i - 2] = <<"return", StageOrder[k - 1]>>
    /\ (pc = "in_node" /\ node # "transcription") =>
            \A k \in DOMAIN update : node_state[k] = update[k]

C1_Witness ==
    /\ pc = "returned"
    /\ Started = StageOrder
    /\ log[9] = <<"merge", "diagnosis">>

\* C2: a stage that appends to errors and returns does not stop the chain:
\* whenever the chain has ended without an exception all three stages were
\* executed, whatever errors were logged, and a recoverable failure never
\* leaves a stage as an exception.
C2_ErrorsDoNotShortCircuit ==
    /\ pc \in {"chain_done", "returned"} =>
            /\ Started = StageOrder
            /\ \A n \in {"transcription", "medical_extraction", "diagnosis"} :
                \E i \in 1..Len(log) : log[i] = <<"return", n>>
    /\ (pc = "node_done" /\ "errors" \in DOMAIN update /\ node # "diagnosis") =>
            Edge(node) \in {"medical_extraction", "diagnosis"}
    /\ pc = "escaped" => exc \in Defects

C2_Witness ==
    /\ pc = "returned"
    /\ Len(state.errors) = 3
    /\ Started = StageOrder

\* C3: a run whose stages fail only recoverably ends by returning a
\* ProcessingResult built from the final state, never by raising; when the
\* extraction stage failed recoverably, diagnosis is still executed, on the
\* default-empty medical_extraction, and the result carries that default
\* extraction and what the diagnosis stage stored.
C3_RecoverableFailuresReturnResult ==
    /\ (pc = "raised" /\ log # <<>>) => exc \in Defects
    /\ pc = "returned" =>
            /\ result = [transcription |-> state.transcription,
                         medical_extraction |-> state.medical_extraction,
                         diagnosis_result |-> state.diagnosis_result,
                         processing_time |-> now - start_time,
                         timestamp |-> now]
            /\ failure = None
    /\ (node = "diagnosis" /\ pc \in {"in_node", "node_done"}
            /\ HasError(node_state, "Medical extraction failed: ")) =>
            node_state.medical_extraction = EmptyExtraction
    /\ (pc = "returned" /\ HasError(state, "Medical extraction failed: ")) =>
            /\ \E i \in 1..Len(log) : log[i] = <<"return", "diagnosis">>
            /\ result.medical_extraction = EmptyExtraction
            /\ ~HasError(state, "Diagnosis generation failed: ") =>
                    result.diagnosis_result = ParseDiagnosis(response.text)

C3_Witness ==
    /\ pc = "returned"
    /\ HasError(state, "Medical extraction failed: ")
    /\ ~HasError(state, "Diagnosis generation failed: ")
    /\ result.diagnosis_result.diagnosis = <<"Flu">>
    /\ result.medical_extraction = EmptyExtraction

\* C4: when an exception escapes the chain no further stage runs, the
\* exception raised to the caller carries "Workflow execution failed: "
\* followed by the original message, and no ProcessingResult is returned.
C4_EscapeAbortsAndWraps ==
    /\ \A i \in 1..Len(log) : log[i][1] = "raise" => i = Len(log)
    /\ pc = "escaped" => (result = NoResult /\ log[Len(log)][1] = "raise")
    /\ (pc = "raised" /\ log # <<>>) =>
            /\ failure = <<"Workflow execution failed: ">> \o exc
            /\ result = NoResult
            /\ log[Len(log)][1] = "raise"

C4_Witness ==
    /\ pc = "raised"
    /\ exc \in Defects
    /\ log[Len(log)] = <<"raise", "medical_extraction">>
    /\ failure = <<"Workflow execution failed: ", "stage defect">>

\* C5: for a request whose text is set (a non-empty string) and whose
\* audio_url is unset, the transcription stage returns the input text
\* unchanged as transcription, records transcription_time = 0 and returns no
\* errors; after the merge the state holds exactly that and no error.
C5_DirectTextVerbatim ==
    (Truthy(request.text) /\ request.audio_url = None) =>
        /\ (pc = "node_done" /\ node = "transcription") =>
                /\ DOMAIN update = {"transcription", "processing_metadata"}
                /\ update.transcription = request.text
                /\ "transcription_time" \in DOMAIN update.processing_metadata
                /\ update.processing_metadata["transcription_time"] = 0
        /\ \A i \in 1..Len(log) : log[i] # <<"raise", "transcription">> \/ exc \in Defects
        /\ (pc = "ready" /\ node = "medical_extraction") =>
                /\ state.transcription = request.text
                /\ "transcription_time" \in DOMAIN state.processing_metadata
                /\ state.processing_metadata["transcription_time"] = 0
                /\ state.errors = <<>>

C5_Witness ==
    /\ pc = "ready" /\ node = "medical_extraction"
    /\ request = [audio_url |-> None, text |-> <<"fever", SP, "cough">>]
    /\ state.transcription = <<"fever", SP, "cough">>

\* C6: for a request with neither text nor audio_url set, the transcription
\* stage returns normally, with exactly one new entry in errors and nothing
\* else; after the merge transcription is still the empty string.
C6_MissingInputOneError ==
    (~Truthy(request.text) /\ ~Truthy(request.audio_url)) =>
        /\ (pc = "node_done" /\ node = "transcription") =>
                /\ DOMAIN update = {"errors"}
                /\ Len(update.errors) = Len(node_state.errors) + 1
                /\ SubSeq(update.errors, 1, Len(node_state.errors)) = node_state.errors
                /\ update.errors[Len(update.errors)] =
                        <<"Transcription failed: ", "No audio URL or text provided">>
        /\ \A i \in 1..Len(log) : log[i] # <<"raise", "transcription">> \/ exc \in Defects
        /\ (pc = "ready" /\ node = "medical_extraction") =>
                /\ state.transcription = <<>>
                /\ Len(state.errors) = 1

C6_Witness ==
    /\ pc = "ready" /\ node = "medical_extraction"
    /\ request = [audio_url |-> None, text |-> None]
    /\ Len(state.errors) = 1
    /\ state.transcription = <<>>

AfterExtraction == pc = "node_done" /\ node = "medical_extraction" /\ ~response.raised
AfterDiagnosis == pc = "node_done" /\ node = "diagnosis" /\ ~response.raised

\* C7: whenever the completion is text that is not valid JSON the extraction
\* stage returns normally, without an error, and the medical_extraction it
\* returns is the fixed fallback: symptoms = ["Unable to parse symptoms"],
\* empty patient info, consultation reason "Unable to parse consultation
\* reason" and extracted_text = the transcription the stage was given.
C7_NonJsonFallback ==
    /\ (AfterExtraction /\ response.text \in NonJsonTexts) =>
            /\ DOMAIN update = {"medical_extraction", "processing_metadata"}
            /\ update.medical_extraction =
                    [symptoms |-> << <<"Unable to parse symptoms">> >>,
                     patient_info |-> EmptyPatientInfo,
                     consultation_reason |-> <<"Unable to parse consultation reason">>,
                     extracted_text |-> node_state.transcription]
    /\ (pc = "escaped" /\ node = "medical_extraction") => exc \in Defects

C7_Witness ==
    /\ AfterExtraction
    /\ response.text = <<"~~~json", NL, "{", "}", NL, "~~~">>
    /\ node_state.transcription = <<"fever", SP, "cough">>
    /\ update.medical_extraction.extracted_text = <<"fever", SP, "cough">>
    /\ update.medical_extraction.symptoms = << <<"Unable to parse symptoms">> >>

\* the medical_extraction that GoodJson describes
GoodExtraction ==
    [symptoms |-> << <<"fever">>, <<"cough">> >>,
     patient_info |-> PatientOf(JNum(45), JStr(<<"female">>)),
     consultation_reason |-> <<"checkup">>,
     extracted_text |-> <<"note">>]

HeaderPos(text) == {i \in 1..Len(text) : text[i] \in Headers}
\* the text is made of the three header lines, each alone on its line, each
\* once, with nothing before the first
IsSectioned(text) ==
    /\ \A h \in Headers : Cardinality({i \in HeaderPos(text) : text[i] = h}) = 1
    /\ 1 \in HeaderPos(text)
    /\ \A i \in HeaderPos(text) :
        /\ i = 1 \/ text[i - 1] = NL
        /\ i = Len(text) \/ text[i + 1] = NL
\* what stands between the header h and the next header (or the end)
BodyUnder(text, h) ==
    LET p == CHOOSE i \in HeaderPos(text) : text[i] = h
        later == {i \in HeaderPos(text) : i > p}
        e == IF later = {} THEN Len(text)
             ELSE (CHOOSE i \in later : \A j \in later : i <= j) - 1
    IN  SubSeq(text, p + 1, e)
RECURSIVE JoinTrimmed(_)
JoinTrimmed(lines) ==
    IF lines = <<>> THEN <<>>
    ELSE Strip(Head(lines)) \o <<NL>> \o JoinTrimmed(Tail(lines))
\* the lines of a body, each trimmed, joined by newlines, the whole trimmed
TrimmedBody(body) == Strip(JoinTrimmed(SplitLines(body)))

\* C9: for a completion made of the three header lines, each followed by body
\* lines without a header literal, every field is the body under its header:
\* its lines, each trimmed, joined by newlines, and the whole trimmed.
C9_SectionedTextParsed ==
    (AfterDiagnosis /\ IsSectioned(response.text)) =>
        /\ update.diagnosis_result.diagnosis =
                TrimmedBody(BodyUnder(response.text, H_DIAGNOSIS))
        /\ update.diagnosis_result.treatment_plan =
                TrimmedBody(BodyUnder(response.text, H_TREATMENT))
        /\ update.diagnosis_result.recommendations =
                TrimmedBody(BodyUnder(response.text, H_RECOMMENDATIONS))
        /\ response.text = SpecExample =>
                update.diagnosis_result =
                    [diagnosis |-> <<"Flu">>, treatment_plan |-> <<"Rest">>,
                     recommendations |-> <<"Follow", SP, "up">>]

C9_Witness ==
    /\ AfterDiagnosis
    /\ response.text = SpecExample
    /\ update.diagnosis_result =
            [diagnosis |-> <<"Flu">>, treatment_plan |-> <<"Rest">>,
             recommendations |-> <<"Follow", SP, "up">>]

\* some line of the text starts, after trimming, with a header literal
HeaderStartsLine(text) ==
    \E i \in HeaderPos(text) :
        \A j \in 1..(i - 1) : (\A k \in j..(i - 1) : text[k] # NL) => text[j] = SP

\* C10: for every completion text the diagnosis stage returns a
\* DiagnosisResult and no error, and when no line starts (after trimming)
\* with one of the three header literals all three fields are empty.
C10_ParserTotal ==
    /\ AfterDiagnosis =>
            /\ DOMAIN update = {"diagnosis_result", "processing_metadata"}
            /\ DOMAIN update.diagnosis_result =
                    {"diagnosis", "treatment_plan", "recommendations"}
            /\ ~HeaderStartsLine(response.text) =>
                    update.diagnosis_result =
                        [diagnosis |-> <<>>, treatment_plan |-> <<>>,
                         recommendations |-> <<>>]
    /\ (pc = "escaped" /\ node = "diagnosis") => exc \in Defects

C10_Witness ==
    /\ AfterDiagnosis
    /\ response.text = <<"Flu", NL, "diagnosis:", "Flu">>
    /\ update.diagnosis_result.diagnosis = <<>>
    /\ update.diagnosis_result.treatment_plan = <<>>
    /\ update.diagnosis_result.recommendations = <<>>

(* ------------------- the parser, one line at a time -------------------- *)
\* the parser's buffers before it reads line k of the lines of the text
AccBefore(lines, k) == ParseLoop(ParseStart, SubSeq(lines, 1, k - 1))
\* the header literal a line starts with after trimming, or "None"
HeaderOf(raw) ==
    IF Strip(raw) # <<>> /\ Head(Strip(raw)) \in Headers THEN Head(Strip(raw)) ELSE "None"
SectionOf(h) ==
    CASE h = H_DIAGNOSIS -> "diagnosis"
      [] h = H_TREATMENT -> "treatment"
      [] h = H_RECOMMENDATIONS -> "recommendations"
Buffer(acc, section) ==
    CASE section = "diagnosis" -> acc.diagnosis
      [] section = "treatment" -> acc.treatment_plan
      [] section = "recommendations" -> acc.recommendations
Sections == {"diagnosis", "treatment", "recommendations"}
\* the field of a DiagnosisResult that a section fills
Field(res, section) ==
    CASE section = "diagnosis" -> res.diagnosis
      [] section = "treatment" -> res.treatment_plan
      [] section = "recommendations" -> res.recommendations
\* what follows the leading header on a header line, trimmed
Remainder(raw) == Strip(Tail(Strip(raw)))

\* C11: every line that starts (after trimming) with a header literal adds
\* to that header's section exactly the remainder of the line after the
\* leading header, trimmed, whatever the remainder contains; a completion of
\* one such line therefore yields that remainder as the section's field.
C11_HeaderLineRemainder ==
    AfterDiagnosis =>
        LET lines == SplitLines(response.text) IN
        /\ \A k \in 1..Len(lines) :
            HeaderOf(lines[k]) # "None" =>
                LET s == SectionOf(HeaderOf(lines[k])) IN
                Buffer(ParseLine(AccBefore(lines, k), lines[k]), s) =
                    Buffer(AccBefore(lines, k), s) \o Remainder(lines[k]) \o <<NL>>
        /\ (Len(lines) = 1 /\ HeaderOf(lines[1]) # "None") =>
                Field(update.diagnosis_result, SectionOf(HeaderOf(lines[1]))) =
                    Remainder(lines[1])

\* the lines that start with a header literal
HeaderLines(lines) == {k \in 1..Len(lines) : HeaderOf(lines[k]) # "None"}

\* C12: the active section changes only on a line that starts with one of
\* the three exact header literals; any other line (one with a lower-case
\* header included) leaves the active section as it is and is appended,
\* trimmed, to the active section's buffer, or to no buffer while no section
\* is active.  So in a completion with a single header line that holds only
\* the header, the lines before it reach no field and the lines after it
\* make up that header's field.
C12_SectionChangesOnlyOnHeaders ==
    AfterDiagnosis =>
        LET lines == SplitLines(response.text) IN
        /\ \A k \in 1..Len(lines) :
            LET acc == AccBefore(lines, k)
                after == ParseLine(acc, lines[k])
            IN  IF HeaderOf(lines[k]) # "None"
                THEN after.current_section = SectionOf(HeaderOf(lines[k]))
                ELSE /\ after.current_section = acc.current_section
                     /\ \A s \in Sections :
                            Buffer(after, s) =
                                IF s = acc.current_section
                                THEN Buffer(acc, s) \o Strip(lines[k]) \o <<NL>>
                                ELSE Buffer(acc, s)
        /\ \A k \in HeaderLines(lines) :
            (HeaderLines(lines) = {k} /\ Strip(lines[k]) = <<HeaderOf(lines[k])>>) =>
                \A s \in Sections :
                    Field(update.diagnosis_result, s) =
                        IF s = SectionOf(HeaderOf(lines[k]))
                        THEN Strip(JoinTrimmed(SubSeq(lines, k + 1, Len(lines))))
                        ELSE <<>>

C12_Witness ==
    /\ AfterDiagnosis
    /\ response.text = <<"Flu", NL, H_TREATMENT, NL, "diagnosis:", "Flu">>
    /\ update.diagnosis_result =
            [diagnosis |-> <<>>, treatment_plan |-> <<"diagnosis:", "Flu">>,
             recommendations |-> <<>>]

\* the run is on the audio path with a remote URL
RemoteAudioRun == ~Truthy(request.text) /\ request.audio_url = RemoteUrl

\* C13: on the audio path with a remote URL, whenever the transcription
\* stage has returned (with a transcription or with a logged failure) the
\* temporary file of the download step is not on disk.
C13_NoTempFileLeft ==
    (pc = "node_done" /\ node = "transcription" /\ RemoteAudioRun) =>
        DownloadPath \notin disk

\* the transcription stage returned its transcription for an audio request
AudioTranscribed ==
    /\ pc = "node_done" /\ node = "transcription"
    /\ ~Truthy(request.text) /\ "transcription" \in DOMAIN update

\* C14: cleanup_temp_file deletes an existing file whose original reference
\* is a remote URL and keeps every file whose original reference starts with
\* file://, whatever is on disk; so after the stage transcribed a downloaded
\* file that file is gone, and after it transcribed an uploaded file that
\* file still exists.
C14_CleanupRespectsOwnership ==
    /\ \A f \in {UploadPath, DownloadPath} :
        /\ f \in disk => f \notin CleanupTempFile(disk, f, RemoteUrl)
        /\ CleanupTempFile(disk, f, <<"file://">> \o f) = disk
        /\ \A g \in disk \ {f} : g \in CleanupTempFile(disk, f, RemoteUrl)
    /\ (AudioTranscribed /\ request.audio_url = RemoteUrl) => DownloadPath \notin disk
    /\ (AudioTranscribed /\ request.audio_url = UploadUrl) => UploadPath \in disk

C14_Witness ==
    /\ AudioTranscribed
    /\ request.audio_url = UploadUrl
    /\ update.transcription = <<"headache">>
    /\ disk = {UploadPath}

\* the stage that just returned left at least one new entry in errors
NewError ==
    /\ "errors" \in DOMAIN update
    /\ Len(update.errors) > Len(node_state.errors)
\* the stage-recoverable failure that happened in the stage that just returned
StageFailure ==
    IF node = "transcription" THEN
        /\ ~Truthy(request.text)
        /\ \/ ~Truthy(request.audio_url)
           \/ request.audio_url = UploadUrl /\ UploadPath \notin disk
           \/ response.raised
    ELSE IF node = "medical_extraction" THEN
        response.raised \/ ~JsonLoads(Strip(response.text)).ok
    ELSE
        response.raised \/ ~HeaderStartsLine(response.text)

\* C15: whenever a stage returns after a stage-recoverable failure (a failed
\* download, no transcription input, a capability call that raised, a
\* completion that is not JSON in extraction, a completion without section
\* headers in diagnosis), its update holds at least one new entry in errors.
C15_RecoverableFailuresLogged ==
    (pc = "node_done" /\ StageFailure) => NewError

Stages == {"transcription", "medical_extraction", "diagnosis"}
\* the name of the span a stage opens when it starts
StageSpanName(n) ==
    CASE n = "transcription" -> "transcription_node"
      [] n = "medical_extraction" -> "medical_extraction_node"
      [] n = "diagnosis" -> "diagnosis_node"
SpansNamed(name) == {i \in DOMAIN spans : spans[i].name = name}
HasReturned(n) == \E i \in 1..Len(log) : log[i] = <<"return", n>>
\* tracing is on and no tracing call has failed so far
TracingSound == langfuse_enabled /\ trace_faults = 0

\* C16: with tracing enabled and every tracing call succeeding, once a stage
\* has returned (with its output or with a logged failure) the stage-level
\* span it opened exists once and has been ended exactly once.
C16_StageSpanEndedOnce ==
    TracingSound =>
        \A n \in Stages :
            HasReturned(n) =>
                /\ Cardinality(SpansNamed(StageSpanName(n))) = 1
                /\ \A i \in SpansNamed(StageSpanName(n)) : spans[i].ended = 1

C16_Witness ==
    /\ TracingSound
    /\ pc = "returned"
    /\ Len(state.errors) = 2
    /\ state.diagnosis_result.diagnosis = <<"Flu">>
    /\ \A n \in Stages : \A i \in SpansNamed(StageSpanName(n)) : spans[i].ended = 1
    /\ Cardinality(UNION {SpansNamed(StageSpanName(n)) : n \in Stages}) = 3

\* the name of the generation span a stage opens around its capability call
GenerationSpanName(n) ==
    CASE n = "transcription" -> "whisper_transcription"
      [] n = "medical_extraction" -> "medical_extraction_llm"
      [] n = "diagnosis" -> "diagnosis_generation_llm"

\* C17: with tracing enabled and every tracing call succeeding, once a stage
\* has returned (with its output, or with a logged failure of the download
\* or of the capability call) every generation span it opened has been ended.
C17_GenerationSpanEnded ==
    TracingSound =>
        \A n \in Stages :
            HasReturned(n) =>
                \A i \in SpansNamed(GenerationSpanName(n)) : spans[i].ended >= 1

\* process_medical_request is over: it returned its result or raised
RunOver == pc \in {"returned", "raised"}

\* C18: with tracing enabled, every run that is over has flushed the pending
\* trace data exactly once, and by then the workflow-level span has been
\* updated and ended.
C18_FlushOnceOnExit ==
    (langfuse_enabled /\ RunOver) =>
        /\ flushes = 1
        /\ \A i \in SpansNamed("medical_workflow") :
            spans[i].updates = 1 /\ spans[i].ended = 1

\* what the stage that just returned would have returned with tracing off,
\* on the same state and the same collaborator responses
UntracedUpdates ==
    CASE node = "transcription" ->
            {TranscriptionRun(FALSE, node_state, dsk, <<>>, 0, AllOk, net, response).outcome.update :
                dsk \in SUBSET {UploadPath, DownloadPath}, net \in NetOutcomes}
      [] node = "medical_extraction" ->
            {ExtractionRun(FALSE, node_state, <<>>, 0, AllOk, response).outcome.update}
      [] node = "diagnosis" ->
            {DiagnosisRun(FALSE, node_state, <<>>, 0, AllOk, response).outcome.update}

\* C19: a failed tracing operation does not change the run: a stage returns
\* the update it returns with tracing off, the run raises only when an
\* exception left a stage (never because a tracing call failed) and then with
\* the wrapped message of that exception, and it returns the result built
\* from the final state.
C19_TracingNeverChangesRun ==
    /\ pc = "node_done" => update \in UntracedUpdates
    /\ pc = "escaped" => exc \in Defects
    /\ pc = "raised" => (log # <<>> /\ exc \in Defects /\ failure = WrapFailure(exc))
    /\ pc = "returned" =>
            /\ result.transcription = state.transcription
            /\ result.medical_extraction = state.medical_extraction
            /\ result.diagnosis_result = state.diagnosis_result

(* ------------------- concurrent process_medical_request ---------------- *)
\* the requests of the concurrent calls: text, an uploaded file, or neither
ConcurrentRequests ==
    {[audio_url |-> None, text |-> <<"fever", SP, "cough">>],
     [audio_url |-> UploadUrl, text |-> None],
     [audio_url |-> None, text |-> None]}
\* what the capability a stage calls may answer
CollaboratorAnswers(n) ==
    CASE n = "transcription" -> {Raises} \cup Returns(Transcripts)
      [] n = "medical_extraction" -> {Raises} \cup Returns({GoodJson, <<"Sure", SP, "{", "}">>})
      [] n = "diagnosis" -> {Raises} \cup Returns({SpecExample})

\* one state object that every call hands to its nodes
HandedStateShared(rs, r) == rs["a"].state

\* the state ainvoke hands to a node of call r: the state built for that call
HandedState(rs, r) == rs[r].state

\* the node n run on st, tracing off: its returned dict, the disk and the clock
StageRun(n, st, dsk, t, resp) ==
    CASE n = "transcription" ->
            LET o == TranscriptionRun(FALSE, st, dsk, <<>>, t, AllOk, "ok", resp)
            IN  [update |-> o.outcome.update, disk |-> o.disk, now |-> o.now]
      [] n = "medical_extraction" ->
            LET o == ExtractionRun(FALSE, st, <<>>, t, AllOk, resp)
            IN  [update |-> o.outcome.update, disk |-> dsk, now |-> o.now]
      [] n = "diagnosis" ->
            LET o == DiagnosisRun(FALSE, st, <<>>, t, AllOk, resp)
            IN  [update |-> o.outcome.update, disk |-> dsk, now |-> o.now]

\* the variables of the single call, which the concurrent calls leave alone
SingleCall ==
    <<langfuse_enabled, pc, request, start_time, workflow_trace, state, node, node_state,
      update, response, exc, result, failure, spans, flushes, trace_faults, log, calls,
      metrics>>

\* call r of process_medical_request up to ainvoke
BeginOf(r) ==
    /\ runs[r].pc = "idle"
    /\ \E req \in ConcurrentRequests :
        LET meta == [k \in {"start_time", "langfuse_trace_id"} |->
                        IF k = "start_time" THEN now ELSE NoSpan]
        IN  runs' = [runs EXCEPT ![r] =
                        [@ EXCEPT !.pc = "ready", !.request = req, !.start_time = now,
                                  !.state = NewWorkflowState(req, meta)]]
    /\ UNCHANGED <<SingleCall, disk, now>>

\* the engine hands the state of call r to its next node
StartNodeOf(r) ==
    /\ runs[r].pc = "ready"
    /\ runs' = [runs EXCEPT ![r] =
                    [@ EXCEPT !.pc = "in_node", !.node_state = HandedState(runs, r)]]
    /\ UNCHANGED <<SingleCall, disk, now>>

\* the node of call r has run and returned a dict
NodeDoneOf(r, o, resp) ==
    /\ runs' = [runs EXCEPT ![r] =
                    [@ EXCEPT !.pc = "node_done", !.update = o.outcome.update,
                              !.responses[runs[r].node] = resp]]
    /\ now' = o.now
    /\ UNCHANGED SingleCall

TranscriptionOf(r) ==
    /\ runs[r].pc = "in_node" /\ runs[r].node = "transcription"
    /\ \E wh \in CollaboratorAnswers("transcription") :
        LET o == TranscriptionRun(FALSE, runs[r].node_state, disk, <<>>, now, AllOk, "ok", wh) IN
        /\ disk' = o.disk
        /\ NodeDoneOf(r, o, wh)

MedicalExtractionOf(r) ==
    /\ runs[r].pc = "in_node" /\ runs[r].node = "medical_extraction"
    /\ \E llm \in CollaboratorAnswers("medical_extraction") :
        /\ NodeDoneOf(r, ExtractionRun(FALSE, runs[r].node_state, <<>>, now, AllOk, llm), llm)
        /\ UNCHANGED disk

DiagnosisOf(r) ==
    /\ runs[r].pc = "in_node" /\ runs[r].node = "diagnosis"
    /\ \E llm \in CollaboratorAnswers("diagnosis") :
        /\ NodeDoneOf(r, DiagnosisRun(FALSE, runs[r].node_state, <<>>, now, AllOk, llm), llm)
        /\ UNCHANGED disk

\* the engine merges the dict into the state of call r and follows the edge
ApplyWritesOf(r) ==
    /\ runs[r].pc = "node_done"
    /\ runs' = [runs EXCEPT ![r] =
                    [@ EXCEPT !.state = ApplyUpdate(runs[r].state, runs[r].update),
                              !.node = Edge(runs[r].node),
                              !.pc = IF Edge(runs[r].node) = END THEN "chain_done" ELSE "ready"]]
    /\ UNCHANGED <<SingleCall, disk, now>>

\* call r after ainvoke returned
FinishOf(r) ==
    /\ runs[r].pc = "chain_done"
    /\ runs' = [runs EXCEPT ![r] =
                    [@ EXCEPT !.pc = "returned",
                              !.result = MakeResult(runs[r].state, now - runs[r].start_time, now)]]
    /\ UNCHANGED <<SingleCall, disk, now>>

NextConcurrent ==
    \E r \in RunIds :
        \/ BeginOf(r)
        \/ StartNodeOf(r)
        \/ TranscriptionOf(r)
        \/ MedicalExtractionOf(r)
        \/ DiagnosisOf(r)
        \/ ApplyWritesOf(r)
        \/ FinishOf(r)
SpecConcurrent == InitWith({FALSE}) /\ [][NextConcurrent]_vars

\* the stages whose update has been merged into the state of call r
MergedOf(r) ==
    IF runs[r].pc \in {"chain_done", "returned"} THEN 3
    ELSE CHOOSE k \in 0..2 : StageOrder[k + 1] = runs[r].node
\* the state a call with the request, the start time and the collaborator
\* answers of call r holds after k merges when it runs alone
RECURSIVE AloneAfter(_, _)
AloneAfter(r, k) ==
    IF k = 0 THEN
        NewWorkflowState(runs[r].request,
                         [m \in {"start_time", "langfuse_trace_id"} |->
                            IF m = "start_time" THEN runs[r].start_time ELSE NoSpan])
    ELSE
        LET before == AloneAfter(r, k - 1) IN
        ApplyUpdate(before,
                    StageRun(StageOrder[k], before, disk, 0,
                             runs[r].responses[StageOrder[k]]).update)

\* C20: in every interleaving of two concurrent calls each call has its own
\* WorkflowState: at every point the state of a call (transcription,
\* medical_extraction, diagnosis_result, processing_metadata, errors) is the
\* state that call reaches alone on its own request and its own collaborator
\* answers, the state handed to its nodes is that state, and its result is
\* built from it.
C20_RunsAreIsolated ==
    \A r \in RunIds :
        runs[r].pc # "idle" =>
            /\ runs[r].state = AloneAfter(r, MergedOf(r))
            /\ runs[r].state.input_data = runs[r].request
            /\ runs[r].pc \in {"in_node", "node_done"} => runs[r].node_state = runs[r].state
            /\ runs[r].pc = "returned" =>
                    /\ runs[r].result.transcription = AloneAfter(r, 3).transcription
                    /\ runs[r].result.medical_extraction = AloneAfter(r, 3).medical_extraction
                    /\ runs[r].result.diagnosis_result = AloneAfter(r, 3).diagnosis_result

C20_Witness ==
    /\ runs["a"].pc = "in_node" /\ runs["a"].node = "diagnosis"
    /\ runs["b"].pc = "node_done" /\ runs["b"].node = "medical_extraction"
    /\ runs["a"].request = [audio_url |-> None, text |-> None]
    /\ Len(runs["a"].state.errors) = 2
    /\ runs["b"].request = [audio_url |-> None, text |-> <<"fever", SP, "cough">>]
    /\ runs["b"].state.errors = <<>>
    /\ runs["b"].state.transcription = <<"fever", SP, "cough">>
    /\ "medical_extraction" \in DOMAIN runs["b"].update
    /\ runs["b"].update.medical_extraction.symptoms = << <<"fever">>, <<"cough">> >>

(* ------------------- request validation and POST /process -------------- *)
MaxPad == 2
MinTextLength == 10
MaxTextLength == 10000

\* a validation that measures the untrimmed text against the minimum
ValidateTextInputUntrimmed(text) ==
    Truthy(text) /\ Strip(text) # <<>>
        /\ ~(CharLen(text) < MinTextLength) /\ ~(CharLen(text) > MaxTextLength)

\* validate_text_input
ValidateTextInput(text) ==
    IF ~Truthy(text) \/ Strip(text) = <<>> THEN FALSE
    ELSE IF CharLen(Strip(text)) < MinTextLength THEN FALSE
    ELSE IF CharLen(text) > MaxTextLength THEN FALSE
    ELSE TRUE

PdfUrl == <<"https://", "clinic.example/a.pdf">>
StreamUrl == <<"https://", "clinic.example/stream">>
AudioExtensions == {".mp3", ".wav", ".m4a", ".aac", ".ogg", ".flac", ".wma"}
\* the extension of the last path segment of each URL, "" when it has no dot
PathSuffix ==
    [tok \in {"clinic.example/a.mp3", "clinic.example/a.pdf", "clinic.example/stream"} |->
        CASE tok = "clinic.example/a.mp3" -> ".mp3"
          [] tok = "clinic.example/a.pdf" -> ".pdf"
          [] tok = "clinic.example/stream" -> ""]

\* validate_audio_url: urlparse of a file:// URL has no netloc
ValidateAudioUrl(url) ==
    IF ~Truthy(url) THEN FALSE
    ELSE IF StartsWith(url, "file://") THEN FALSE
    ELSE PathSuffix[url[Len(url)]] \in AudioExtensions \/ PathSuffix[url[Len(url)]] = ""

E_NEITHER == "Either audio_url or text must be provided"
E_URL == "Invalid audio URL format or unsupported file type"
E_TEXT == "Text input is too short (minimum 10 characters) or too long (maximum 10,000 characters)"
E_BOTH == "Please provide either audio_url OR text, not both"

\* a validation without the check that only one input is given
ValidateProcessingRequestEither(audio_url, text) ==
    LET errors ==
            (IF ~Truthy(audio_url) /\ ~Truthy(text) THEN <<E_NEITHER>> ELSE <<>>)
            \o (IF Truthy(audio_url) /\ ~ValidateAudioUrl(audio_url) THEN <<E_URL>> ELSE <<>>)
            \o (IF Truthy(text) /\ ~ValidateTextInput(text) THEN <<E_TEXT>> ELSE <<>>)
    IN  [valid |-> errors = <<>>, errors |-> errors]

\* validate_processing_request
ValidateProcessingRequest(audio_url, text) ==
    LET errors ==
            (IF ~Truthy(audio_url) /\ ~Truthy(text) THEN <<E_NEITHER>> ELSE <<>>)
            \o (IF Truthy(audio_url) /\ ~ValidateAudioUrl(audio_url) THEN <<E_URL>> ELSE <<>>)
            \o (IF Truthy(text) /\ ~ValidateTextInput(text) THEN <<E_TEXT>> ELSE <<>>)
            \o (IF Truthy(audio_url) /\ Truthy(text) THEN <<E_BOTH>> ELSE <<>>)
    IN  [valid |-> errors = <<>>, errors |-> errors]

\* n blanks
Pad(n) == [i \in 1..n |-> SP]
\* one word between 0..MaxPad blanks on each side, and texts of blanks only
ValidationTexts ==
    {Pad(l) \o <<w[1]>> \o Pad(r) : l \in 0..MaxPad, r \in 0..MaxPad, w \in WordChars}
    \cup {Pad(n) : n \in 0..MaxPad}
\* the bodies of POST /process that pydantic turns into a ProcessingRequest
ProcessRequests ==
    [audio_url : {None, RemoteUrl, PdfUrl, StreamUrl, UploadUrl},
     text : {None} \cup ValidationTexts \cup TextInputs]

\* POST /process up to the call of process_medical_request, or to the
\* HTTP 400 that answers an invalid request
ProcessRequest(reqs) ==
    /\ pc = "idle"
    /\ \E req \in reqs :
        LET validation_result ==
                ValidateProcessingRequest(
                    IF Truthy(req.audio_url) THEN req.audio_url ELSE None, req.text)
        IN  IF validation_result.valid THEN Begin({req})
            ELSE /\ pc' = "rejected"
                 /\ request' = req
                 /\ failure' = validation_result.errors
                 /\ UNCHANGED <<calls, runs, metrics, langfuse_enabled, start_time, workflow_trace,
                                state, node, node_state, update, response, exc, result,
                                disk, spans, flushes, now, trace_faults, log>>

\* POST /process after process_medical_request: the success response, or
\* HTTP 500 around the failure
ProcessRespond ==
    /\ pc \in {"returned", "raised"}
    /\ pc' = "responded"
    /\ failure' = IF pc = "raised" THEN <<"Processing failed: ">> \o failure ELSE failure
    /\ UNCHANGED <<calls, runs, metrics, langfuse_enabled, request, start_time, workflow_trace,
                   state, node, node_state, update, response, exc, result, disk, spans,
                   flushes, now, trace_faults, log>>

NextProcess ==
    \/ ProcessRequest(ProcessRequests)
    \/ StartNode
    \/ TranscriptionNode
    \/ MedicalExtractionNode({GoodJson})
    \/ DiagnosisNode({SpecExample})
    \/ AinvokeRaises
    \/ ApplyWrites
    \/ Finish
    \/ HandleFailure
    \/ ProcessRespond
SpecProcess == InitWith({FALSE}) /\ [][NextProcess]_vars

\* how many of audio_url and text the request sets
InputsSet(req) ==
    (IF Truthy(req.audio_url) THEN 1 ELSE 0) + (IF Truthy(req.text) THEN 1 ELSE 0)

\* C21: a request of POST /process with both or neither of audio_url and
\* text set is answered as a validation error that names the violation,
\* before any stage has started or any collaborator was called; every
\* request that goes on to process_medical_request sets exactly one
C21_ExactlyOneInput ==
    pc # "idle" =>
        /\ InputsSet(request) = 0 =>
                /\ pc = "rejected"
                /\ \E i \in 1..Len(failure) : failure[i] = E_NEITHER
        /\ InputsSet(request) = 2 =>
                /\ pc = "rejected"
                /\ \E i \in 1..Len(failure) : failure[i] = E_BOTH
        /\ pc = "rejected" => log = <<>> /\ calls = <<>> /\ result = NoResult
        /\ pc # "rejected" => InputsSet(request) = 1

C21_Witness ==
    /\ pc = "rejected"
    /\ request.audio_url = RemoteUrl
    /\ request.text = <<"fever", SP, "cough">>
    /\ failure = <<E_BOTH>>

\* a text-only request of POST /process has been validated
TextOnly == pc # "idle" /\ ~Truthy(request.audio_url) /\ Truthy(request.text)

\* C22 as stated: a text is accepted exactly when it has 10 to 10,000
\* characters
C22_Original ==
    TextOnly =>
        (pc # "rejected" <=> CharLen(request.text) >= 10 /\ CharLen(request.text) <= 10000)

\* C22: a text is accepted exactly when it has at least 10 characters after
\* its leading and trailing whitespace is removed and at most 10,000
\* characters in all
C22_TrimmedMinimum ==
    TextOnly =>
        (pc # "rejected" <=>
            CharLen(Strip(request.text)) >= 10 /\ CharLen(request.text) <= 10000)

C22_Witness ==
    /\ TextOnly
    /\ pc = "rejected"
    /\ request.text = <<SP, "<9 letters>", SP>>
    /\ failure = <<E_TEXT>>

(* ----------------- the trace copy of the diagnosis fields -------------- *)
\* bodies of 1, 199, 200, 201 and 202 characters, the limit of the trace
\* copy being 200, and one of 200 characters between blanks
FieldBodies ==
    {<<"x">>, <<"<100 letters>", "<99 letters>">>, <<"<100 letters>", "<100 letters>">>,
     <<"<100 letters>", "<100 letters>", "x">>,
     <<"<100 letters>", SP, "<99 letters>", SP, "x">>,
     <<SP, "<100 letters>", "<100 letters>", SP>>}
TraceTexts ==
    {Section(H_DIAGNOSIS, <<b1>>) \o <<NL>> \o Section(H_TREATMENT, <<b2>>) \o <<NL>>
        \o Section(H_RECOMMENDATIONS, <<b3>>) : b1, b2, b3 \in FieldBodies}
SpecTraceCopy ==
    InitWith({TRUE}) /\ [][NextWith(DiagnosisRequests, {GoodJson}, TraceTexts)]_vars

DiagnosisFields == {"diagnosis", "treatment_plan", "recommendations"}
FieldHeader(f) ==
    CASE f = "diagnosis" -> H_DIAGNOSIS
      [] f = "treatment_plan" -> H_TREATMENT
      [] f = "recommendations" -> H_RECOMMENDATIONS
\* the diagnosis stage stored a parsed completion and its span took the update
DiagnosisTraced ==
    /\ HasReturned("diagnosis")
    /\ calls[Len(calls)].op = "llm.invoke" /\ ~calls[Len(calls)].answer.raised
    /\ SpansNamed("diagnosis_node") # {}
    /\ \A i \in SpansNamed("diagnosis_node") : spans[i].updates = 1

\* C23: for every length of a diagnosis field the value the stage returns,
\* the value in the state and the value in the ProcessingResult are the full
\* parsed text under the field's header; the copy attached to the stage's
\* span is the first 200 characters followed by "..." exactly when the field
\* has more than 200 characters, and is the field itself otherwise.
C23_OnlyTraceCopyShortened ==
    DiagnosisTraced =>
        \A f \in DiagnosisFields :
            LET full == TrimmedBody(BodyUnder(calls[Len(calls)].answer.text, FieldHeader(f)))
            IN  /\ update.diagnosis_result[f] = full
                /\ pc \in {"ready", "chain_done", "returned"} => state.diagnosis_result[f] = full
                /\ pc = "returned" => result.diagnosis_result[f] = full
                /\ \A i \in SpansNamed("diagnosis_node") :
                    IF CharLen(full) > 200
                    THEN \E k \in 1..Len(full) :
                            /\ CharLen(SubSeq(full, 1, k)) = 200
                            /\ spans[i].output[f] = SubSeq(full, 1, k) \o <<"...">>
                    ELSE spans[i].output[f] = full

C23_Witness ==
    /\ DiagnosisTraced
    /\ pc = "returned"
    /\ CharLen(result.diagnosis_result.diagnosis) = 201
    /\ CharLen(result.diagnosis_result.treatment_plan) = 200
    /\ \E i \in SpansNamed("diagnosis_node") :
        /\ spans[i].output.diagnosis = <<"<100 letters>", "<100 letters>", "...">>
        /\ spans[i].output.treatment_plan = result.diagnosis_result.treatment_plan

\* C24: the prompt the diagnosis stage sends carries 'unknown' for the age
\* or the gender, 'General consultation' for the consultation reason and
\* 'No specific symptoms identified' for the symptoms only when the value is
\* missing (null, an empty string or an empty list); every present value,
\* every age in 0..150 included, is in the prompt as extracted.
C24_PlaceholdersOnlyWhenMissing ==
    (pc = "node_done" /\ node = "diagnosis") =>
        LET me == node_state.medical_extraction
            age == IF me.patient_info.age.t = "null" THEN <<"unknown">>
                   ELSE NumStr(me.patient_info.age.v)
            gender == IF me.patient_info.gender.t = "null" \/ me.patient_info.gender.v = <<>>
                      THEN <<"unknown">> ELSE me.patient_info.gender.v
            reason == IF me.consultation_reason = <<>> THEN <<"General consultation">>
                      ELSE me.consultation_reason
            symptoms == IF me.symptoms = <<>> THEN <<"No specific symptoms identified">>
                        ELSE Join(me.symptoms, <<",", SP>>)
        IN  /\ calls # <<>>
            /\ calls[Len(calls)].op = "llm.invoke"
            /\ calls[Len(calls)].arg = PromptText(age, gender, reason, symptoms)

\* completions that are a JSON object the schema accepts
WellFormedJsonTexts ==
    {GoodJson} \cup PaddedJsonTexts
    \cup {ObjectText(c[1], c[2], c[3], c[4]) :
            c \in {o \in ObjectCases : o[1].valid /\ o[2].valid /\ o[3].valid /\ o[4].valid}}
\* the three headers, each on its own line and followed by some text
WellFormedSections(text) ==
    IsSectioned(text) /\ \A h \in Headers : Strip(BodyUnder(text, h)) # <<>>
\* a text request whose two completion calls returned well-formed answers
\* has run to its end
WellFormedRun ==
    /\ pc = "returned"
    /\ Truthy(request.text)
    /\ Len(calls) = 2
    /\ \A i \in 1..2 : calls[i].op = "llm.invoke" /\ ~calls[i].answer.raised
    /\ calls[1].answer.text \in WellFormedJsonTexts
    /\ WellFormedSections(calls[2].answer.text)

\* C25: a text request whose extraction completion is a well-formed JSON
\* object and whose diagnosis completion is well-formed sectioned text
\* returns a ProcessingResult with the input text as transcription, the
\* medical_extraction and the diagnosis_result of the final state, which are
\* what the two stages parsed (the diagnosis not empty), and no error
C25_EndToEndTextRequest ==
    WellFormedRun =>
        /\ result # NoResult
        /\ failure = None
        /\ result.transcription = request.text
        /\ result.medical_extraction = state.medical_extraction
        /\ result.diagnosis_result = state.diagnosis_result
        /\ calls[1].answer.text = GoodJson => result.medical_extraction = GoodExtraction
        /\ \A f \in DiagnosisFields :
                result.diagnosis_result[f] =
                    TrimmedBody(BodyUnder(calls[2].answer.text, FieldHeader(f)))
        /\ result.diagnosis_result.diagnosis # <<>>
        /\ state.errors = <<>>

C25_Witness ==
    /\ WellFormedRun
    /\ request.text = <<"fever", SP, "cough">>
    /\ result.transcription = <<"fever", SP, "cough">>
    /\ result.medical_extraction = GoodExtraction
    /\ result.diagnosis_result =
            [diagnosis |-> <<"Flu">>, treatment_plan |-> <<"Rest">>,
             recommendations |-> <<"Follow", SP, "up">>]

IsPrefix(s, t) == Len(s) <= Len(t) /\ SubSeq(t, 1, Len(s)) = s
\* the stage whose handler wrote the errors entry e
ErrorStage(e) ==
    CASE Head(e) = "Transcription failed: " -> 1
      [] Head(e) = "Medical extraction failed: " -> 2
      [] Head(e) = "Diagnosis generation failed: " -> 3

\* C26: the errors list only grows by appending: the dict a stage returns
\* and the state after the stage carry the list the stage was handed as a
\* prefix, with at most one entry more, and the entries of the list are in
\* stage order, at most one for each stage.
C26_ErrorsAppendOnly ==
    /\ IsPrefix(node_state.errors, state.errors)
    /\ Len(state.errors) <= Len(node_state.errors) + 1
    /\ (pc = "node_done" /\ "errors" \in DOMAIN update) =>
            /\ IsPrefix(node_state.errors, update.errors)
            /\ Len(update.errors) = Len(node_state.errors) + 1
            /\ ErrorStage(update.errors[Len(update.errors)]) =
                    CHOOSE k \in 1..3 : StageOrder[k] = node
    /\ \A i, j \in 1..Len(state.errors) :
            i < j => ErrorStage(state.errors[i]) < ErrorStage(state.errors[j])
    /\ pc = "returned" => Len(state.errors) <= 3

C26_Witness ==
    /\ pc = "returned"
    /\ Len(state.errors) = 3
    /\ ErrorStage(state.errors[1]) = 1
    /\ ErrorStage(state.errors[2]) = 2
    /\ ErrorStage(state.errors[3]) = 3
    /\ Len(node_state.errors) = 2

\* the last stage that returned failed recoverably
StageFailed == "errors" \in DOMAIN update
KeptFields == {"transcription", "medical_extraction", "diagnosis_result", "processing_metadata"}

\* C29: a stage that fails recoverably returns only errors, and the state
\* after it has the transcription, medical_extraction, diagnosis_result and
\* processing_metadata the stage was handed: an empty transcription after a
\* failure of stage 1, the default medical_extraction after a failure of
\* stage 2 and the default diagnosis_result after a failure of stage 3.
C29_FailureChangesOnlyErrors ==
    StageFailed =>
        /\ DOMAIN update = {"errors"}
        /\ \A f \in KeptFields : state[f] = node_state[f]
        /\ state.input_data = node_state.input_data
        /\ LET k == ErrorStage(update.errors[Len(update.errors)]) IN
            /\ k = 1 => state.transcription = <<>>
            /\ k = 2 => state.medical_extraction = EmptyExtraction
            /\ k = 3 => state.diagnosis_result = EmptyDiagnosis
            /\ pc \in {"ready", "chain_done"} =>
                    Len(state.errors) = Len(node_state.errors) + 1

C29_Witness ==
    /\ StageFailed
    /\ pc = "ready"
    /\ node = "diagnosis"
    /\ state.transcription = <<"fever", SP, "cough">>
    /\ state.medical_extraction = EmptyExtraction
    /\ state.errors = << <<"Medical extraction failed: ", "completion API error">> >>
    /\ DOMAIN state.processing_metadata = {"start_time", "langfuse_trace_id", "transcription_time"}

\* the calls the transcription stage makes on the audio path
AudioCalls == {"download_audio_file", "transcriptions.create", "cleanup_temp_file", "os.unlink"}

\* C28: when the request has a text (also when it has an audio URL too) the
\* transcription stage downloads nothing, does not call the transcription
\* capability, releases no temp file and opens no generation span; a
\* generation span of the transcription capability exists only for a
\* request with an audio URL and no text.
C28_TextPathHasNoAudioEffects ==
    /\ Truthy(request.text) =>
            /\ \A i \in 1..Len(calls) : calls[i].op \notin AudioCalls
            /\ SpansNamed("whisper_transcription") = {}
            /\ DownloadPath \notin disk
            /\ \A i \in 1..Len(state.errors) : ErrorStage(state.errors[i]) # 1
    /\ SpansNamed("whisper_transcription") # {} =>
            ~Truthy(request.text) /\ Truthy(request.audio_url)

C28_Witness ==
    /\ langfuse_enabled
    /\ request.text = <<"fever", SP, "cough">>
    /\ request.audio_url = RemoteUrl
    /\ pc = "node_done" /\ node = "transcription"
    /\ update.transcription = <<"fever", SP, "cough">>
    /\ SpansNamed("transcription_node") # {}
    /\ calls = <<>>

\* the event loop keeps running the call, and every collaborator call
\* returns or raises
SpecLive == Init /\ [][Next]_vars /\ WF_vars(Next)

RunEnded == pc \in {"returned", "raised"}
TimesStarted(n) == Cardinality({i \in 1..Len(log) : log[i] = <<"start", n>>})

\* C27: every run of process_medical_request eventually ends; it ends by
\* returning a ProcessingResult or by raising the failure wrapped as
\* 'Workflow execution failed: ...', with no other outcome, and no stage is
\* started more than once.
C27_EveryRunEnds ==
    /\ <>RunEnded
    /\ [](pc = "returned" => result # NoResult /\ failure = None)
    /\ [](pc = "raised" =>
            result = NoResult /\ StartsWith(failure, "Workflow execution failed: "))
    /\ [](\A n \in Stages : TimesStarted(n) <= 1)

(* --------------------------- POST /process/upload ---------------------- *)
\* the uploaded files: whether the content type or the extension is an
\* allowed one, whether the content exceeds 25MB, whether writing it succeeds
UploadFiles == [type_ok : BOOLEAN, ext_ok : BOOLEAN, too_large : BOOLEAN, write_ok : BOOLEAN]
UploadRequest == [audio_url |-> UploadUrl, text |-> None]

\* process_uploaded_file up to the ProcessingRequest: the checks of type and
\* size, the temporary file and the write of the content
SaveUpload(files) ==
    /\ pc = "idle"
    /\ UploadPath \notin disk
    /\ \E file \in files :
        IF (~file.type_ok /\ ~file.ext_ok) \/ file.too_large THEN
            /\ pc' = "rejected"
            /\ failure' = IF ~file.type_ok /\ ~file.ext_ok THEN <<"Unsupported file type">>
                          ELSE <<"File too large">>
            /\ UNCHANGED disk
        ELSE IF ~file.write_ok THEN
            /\ pc' = "upload_failed"
            /\ failure' = <<"write failed">>
            /\ disk' = disk \cup {UploadPath}
        ELSE
            /\ disk' = disk \cup {UploadPath}
            /\ UNCHANGED <<pc, failure>>
    /\ UNCHANGED <<calls, runs, metrics, langfuse_enabled, request, start_time, workflow_trace,
                   state, node, node_state, update, response, exc, result, spans,
                   flushes, now, trace_faults, log>>

\* process_uploaded_file calls process_medical_request on the file:// request
UploadBegin ==
    /\ UploadPath \in disk
    /\ Begin({UploadRequest})

\* the except and finally blocks of process_uploaded_file
UploadFinally ==
    /\ pc \in {"returned", "raised", "upload_failed"}
    /\ pc' = "responded"
    /\ failure' = IF pc = "returned" THEN failure
                  ELSE <<"File processing failed: ">> \o failure
    /\ IF UploadPath \in disk
       THEN /\ disk' = disk \ {UploadPath}
            /\ calls' = Append(calls, Call("os.unlink", UploadPath, NoResponse))
       ELSE UNCHANGED <<disk, calls>>
    /\ UNCHANGED <<runs, metrics, langfuse_enabled, request, start_time, workflow_trace,
                   state, node, node_state, update, response, exc, result, spans,
                   flushes, now, trace_faults, log>>

NextUpload ==
    \/ SaveUpload(UploadFiles)
    \/ UploadBegin
    \/ StartNode
    \/ TranscriptionNode
    \/ MedicalExtractionNode({GoodJson})
    \/ DiagnosisNode({SpecExample})
    \/ AinvokeRaises
    \/ ApplyWrites
    \/ Finish
    \/ HandleFailure
    \/ UploadFinally
SpecUpload == InitWith(BOOLEAN) /\ [][NextUpload]_vars

\* process_medical_request has been called on the upload and has not ended
UploadRunning == pc \in {"ready", "in_node", "node_done", "chain_done", "escaped"}
UnlinksOf(path) == {i \in 1..Len(calls) : calls[i].op = "os.unlink" /\ calls[i].arg = path}

\* C30: on the upload path the temp file exists from the call of
\* process_medical_request until it has returned or raised; the only step
\* that deletes it is the end of the upload endpoint, after the run is over
\* (or when there was no run because the upload could not be written), on
\* success and on failure; os.unlink is called on it once in all, by the
\* endpoint and by no stage.
C30_UploadDeletedOnceByEndpoint ==
    /\ []((UploadRunning \/ RunEnded) => UploadPath \in disk)
    /\ [](Cardinality(UnlinksOf(UploadPath)) <= 1)
    /\ [](UnlinksOf(UploadPath) # {} => pc = "responded")
    /\ [](pc = "responded" => UploadPath \notin disk /\ Cardinality(UnlinksOf(UploadPath)) = 1)
    /\ [][(UploadPath \in disk /\ UploadPath \notin disk') =>
            (pc \in {"returned", "raised", "upload_failed"} /\ pc' = "responded")]_vars

C30_Witness ==
    /\ pc = "responded"
    /\ request = UploadRequest
    /\ result # NoResult
    /\ result.transcription = <<"headache">>
    /\ UploadPath \notin disk
    /\ \E i \in 1..Len(calls) : calls[i].op = "cleanup_temp_file" /\ calls[i].arg = UploadPath
    /\ calls[Len(calls)] = Call("os.unlink", UploadPath, NoResponse)

(* ------------------------- timing keys (C31) --------------------------- *)
\* the key of processing_metadata under which a stage records its time
TimingKey(n) ==
    CASE n = "transcription" -> "transcription_time"
      [] n = "medical_extraction" -> "extraction_time"
      [] n = "diagnosis" -> "diagnosis_time"
\* the stage took its except block: its entry is in the errors of the state
FailedRecoverably(n) ==
    \E i \in 1..Len(state.errors) : StageOrder[ErrorStage(state.errors[i])] = n

\* C31: at the end of every run that returns, processing_metadata still
\* holds the start_time the engine set, and it holds the timing key of a
\* stage exactly when that stage did not fail recoverably (its except block
\* did not run); no other timing key is ever in it.
C31_TimingKeysOfSucceededStages ==
    /\ pc = "returned" =>
        /\ "start_time" \in DOMAIN state.processing_metadata
        /\ state.processing_metadata["start_time"] = start_time
        /\ \A n \in {"transcription", "medical_extraction", "diagnosis"} :
                TimingKey(n) \in DOMAIN state.processing_metadata <=> ~FailedRecoverably(n)
    /\ pc \in {"ready", "in_node", "node_done", "chain_done", "escaped"} =>
        /\ "start_time" \in DOMAIN state.processing_metadata
        /\ state.processing_metadata["start_time"] = start_time
        /\ \A n \in {"transcription", "medical_extraction", "diagnosis"} :
                FailedRecoverably(n) => TimingKey(n) \notin DOMAIN state.processing_metadata

\* a returned run whose extraction stage failed and whose other stages
\* succeeded, one of them after the Whisper call
C31_Witness ==
    /\ pc = "returned"
    /\ FailedRecoverably("medical_extraction")
    /\ ~FailedRecoverably("transcription") /\ ~FailedRecoverably("diagnosis")
    /\ Truthy(request.audio_url) /\ ~Truthy(request.text)
    /\ DOMAIN state.processing_metadata =
            {"start_time", "langfuse_trace_id", "transcription_time", "diagnosis_time"}
    /\ state.processing_metadata["transcription_time"] > 0

(* ----------------------- repeated headers (C32) ------------------------ *)
\* the lines that start with the header h
LinesOf(lines, h) == {k \in 1..Len(lines) : HeaderOf(lines[k]) = h}
\* the bodies under every occurrence of the header h, in order of
\* appearance: of each line that starts with h what follows the header, and
\* the lines after it up to the next line that starts with a header; every
\* line trimmed and ended by a newline.  active: a line of h was the last
\* header line
RECURSIVE BodiesUnderAll(_, _, _)
BodiesUnderAll(lines, h, active) ==
    IF lines = <<>> THEN <<>>
    ELSE IF HeaderOf(Head(lines)) = h
         THEN Remainder(Head(lines)) \o <<NL>> \o BodiesUnderAll(Tail(lines), h, TRUE)
    ELSE IF HeaderOf(Head(lines)) # "None" THEN BodiesUnderAll(Tail(lines), h, FALSE)
    ELSE IF active
         THEN Strip(Head(lines)) \o <<NL>> \o BodiesUnderAll(Tail(lines), h, TRUE)
    ELSE BodiesUnderAll(Tail(lines), h, FALSE)

\* C32: when the same header literal starts more than one line of the
\* completion, the field of that header is the concatenation, in order of
\* appearance, of the bodies under all the lines that start with it (the
\* whole trimmed): a later occurrence does not reset the section.
C32_RepeatedHeaderConcatenates ==
    AfterDiagnosis =>
        LET lines == SplitLines(response.text) IN
        \A h \in Headers :
            Cardinality(LinesOf(lines, h)) > 1 =>
                Field(update.diagnosis_result, SectionOf(h)) =
                    Strip(BodiesUnderAll(lines, h, FALSE))

(* ------------------------ download outcomes (C33) ---------------------- *)
\* the calls of download_audio_file made so far
Downloads == {i \in 1..Len(calls) : calls[i].op = "download_audio_file"}
DownloadMessages ==
    {<<"Cannot connect to host">>, <<"HTTP 404: Failed to download audio file">>,
     <<"write failed">>, <<"Local file not found: ">> \o UploadPath}

MaxCleanups == 2     \* most calls of cleanup_temp_file in a behaviour
\* a file the process may not delete: os.unlink raises PermissionError
ProtectedPath == <<"/srv/audio/shared.mp3">>

\* the try block of cleanup_temp_file: whether an exception leaves it, and
\* the files afterwards.  os.path.exists(None) raises TypeError
CleanupTry(dsk, file_path, original_url) ==
    IF file_path = None THEN [raised |-> TRUE, disk |-> dsk]
    ELSE IF CleanupUnlinks(dsk, file_path, original_url) # <<>> /\ file_path = ProtectedPath
    THEN [raised |-> TRUE, disk |-> dsk]
    ELSE [raised |-> FALSE, disk |-> CleanupTempFile(dsk, file_path, original_url)]

\* a cleanup without its except block
CleanupOutcomeUnguarded(dsk, file_path, original_url) ==
    CleanupTry(dsk, file_path, original_url)

\* cleanup_temp_file as its caller sees it: except Exception: pass
CleanupOutcome(dsk, file_path, original_url) ==
    [CleanupTry(dsk, file_path, original_url) EXCEPT !.raised = FALSE]

\* one call of cleanup_temp_file on any path and reference
CleanupCall ==
    /\ Len(calls) < MaxCleanups
    /\ \E file_path \in {UploadPath, DownloadPath, ProtectedPath, None},
          original_url \in {None, <<>>, RemoteUrl, UploadUrl} :
        LET o == CleanupOutcome(disk, file_path, original_url) IN
        /\ disk' = o.disk
        /\ calls' = Append(calls, Call("cleanup_temp_file", <<file_path, original_url>>,
                                       [raised |-> o.raised, text |-> None]))
    /\ UNCHANGED <<langfuse_enabled, pc, request, start_time, workflow_trace, state, node,
                   node_state, update, response, exc, result, failure, spans, flushes,
                   now, trace_faults, log, runs, metrics>>

SpecCleanup ==
    InitOn({FALSE}, SUBSET {UploadPath, DownloadPath, ProtectedPath}) /\ [][CleanupCall]_vars

\* the last call repeats the call before it: same path, same reference
Repeated ==
    /\ Len(calls) >= 2
    /\ calls[Len(calls)].arg = calls[Len(calls) - 1].arg

\* C34: cleanup_temp_file never raises, and it is idempotent: a call that
\* repeats the call before it (same path, same reference), and a call on a
\* path that does not exist, leave the files as they are and return normally.
C34_CleanupIdempotent ==
    /\ [](\A i \in 1..Len(calls) : ~calls[i].answer.raised)
    /\ [][(calls' # calls /\ calls # <<>> /\ calls'[Len(calls')].arg = calls[Len(calls)].arg)
            => disk' = disk]_vars
    /\ [][(calls' # calls /\ calls'[Len(calls')].arg[1] \notin disk) => disk' = disk]_vars

\* the downloaded file was released twice with its remote reference: the
\* first call deleted it
C34_Witness ==
    /\ Repeated
    /\ calls[1].arg = <<DownloadPath, RemoteUrl>>
    /\ disk = {UploadPath, ProtectedPath}

(* ------------------------ request metrics (C35) ------------------------ *)
WarmUp == 998        \* the first requests of a behaviour are health checks
MaxRequests == 4     \* requests of any kind after them
\* the response times kept for one endpoint
MaxStoredTimes == 1000

\* lst[-n:]
LastN(lst, n) == IF Len(lst) > n THEN SubSeq(lst, Len(lst) - n + 1, Len(lst)) ELSE lst

\* a tracker that keeps the first response times of an endpoint
RecordRequestKeepFirst(m, endpoint, method, response_time, status_code, cost) ==
    LET key == <<method, " ", endpoint>>
        count == IF key \in DOMAIN m.request_counts THEN m.request_counts[key] ELSE 0
        times == IF key \in DOMAIN m.response_times THEN m.response_times[key] ELSE <<>>
    IN  [total_requests |-> m.total_requests + 1,
         successful_requests |-> m.successful_requests + (IF status_code < 400 THEN 1 ELSE 0),
         failed_requests |-> m.failed_requests + (IF status_code < 400 THEN 0 ELSE 1),
         request_counts |-> Put(m.request_counts, key, count + 1),
         response_times |->
            Put(m.response_times, key,
                SubSeq(Append(times, response_time), 1,
                       IF Len(times) + 1 > MaxStoredTimes THEN MaxStoredTimes ELSE Len(times) + 1)),
         processing_costs |->
            IF cost > 0 THEN Append(m.processing_costs, [endpoint |-> endpoint, cost |-> cost])
            ELSE m.processing_costs]

\* MetricsTracker.record_request: the tracker after the call
RecordRequest(m, endpoint, method, response_time, status_code, cost) ==
    LET key == <<method, " ", endpoint>>
        count == IF key \in DOMAIN m.request_counts THEN m.request_counts[key] ELSE 0
        times == IF key \in DOMAIN m.response_times THEN m.response_times[key] ELSE <<>>
    IN  [total_requests |-> m.total_requests + 1,
         successful_requests |-> m.successful_requests + (IF status_code < 400 THEN 1 ELSE 0),
         failed_requests |-> m.failed_requests + (IF status_code < 400 THEN 0 ELSE 1),
         request_counts |-> Put(m.request_counts, key, count + 1),
         response_times |->
            Put(m.response_times, key,
                IF Len(Append(times, response_time)) > MaxStoredTimes
                THEN LastN(Append(times, response_time), MaxStoredTimes)
                ELSE Append(times, response_time)),
         processing_costs |->
            IF cost > 0 THEN Append(m.processing_costs, [endpoint |-> endpoint, cost |-> cost])
            ELSE m.processing_costs]

\* metrics_middleware around one request: call_next returns a response with
\* a status code or raises, and the request is recorded (with status 500
\* when it raised) without a cost.  The first WarmUp requests are successful
\* health checks; times are in milliseconds
MetricsMiddleware ==
    /\ Len(calls) < WarmUp + MaxRequests
    /\ \E req \in IF Len(calls) < WarmUp THEN {<<"GET", "/health">>}
                   ELSE {<<"GET", "/health">>, <<"POST", "/process">>},
          processing_time \in IF Len(calls) < WarmUp THEN {Len(calls) % 7} ELSE {9},
          answer \in IF Len(calls) < WarmUp THEN {[raised |-> FALSE, status_code |-> 200]}
                     ELSE {[raised |-> FALSE, status_code |-> 200],
                           [raised |-> FALSE, status_code |-> 400],
                           [raised |-> TRUE, status_code |-> 0]} :
        LET method == req[1]
            path == req[2]
            status_code == IF answer.raised THEN 500 ELSE answer.status_code
        IN
        /\ metrics' = RecordRequest(metrics, path, method, processing_time, status_code, 0)
        /\ calls' = Append(calls,
                           Call("record_request",
                                [endpoint |-> path, method |-> method,
                                 response_time |-> processing_time, status_code |-> status_code],
                                NoResponse))
    /\ UNCHANGED <<langfuse_enabled, pc, request, start_time, workflow_trace, state, node,
                   node_state, update, response, exc, result, failure, disk, spans, flushes,
                   now, trace_faults, log, runs>>

SpecMetrics == InitWith({FALSE}) /\ [][MetricsMiddleware]_vars

\* the endpoints the tracker knows
Endpoints == DOMAIN metrics.request_counts
RECURSIVE SumOver(_, _)
SumOver(f, keys) ==
    IF keys = {} THEN 0
    ELSE LET k == CHOOSE x \in keys : TRUE IN f[k] + SumOver(f, keys \ {k})
\* the response times of all recorded requests of an endpoint, in order
TimesRecorded(key) ==
    LET IsFor(c) == <<c.arg.method, " ", c.arg.endpoint>> = key
        of == SelectSeq(calls, IsFor)
    IN  [i \in 1..Len(of) |-> of[i].arg.response_time]

\* C35: after any sequence of record_request calls, total_requests equals
\* successful_requests + failed_requests and equals the sum of request_counts
\* over all endpoints, and the stored response-time list of every endpoint
\* holds at most 1000 entries: the most recent ones, in order.
C35_CountersAndWindow ==
    /\ metrics.total_requests = metrics.successful_requests + metrics.failed_requests
    /\ metrics.total_requests = SumOver(metrics.request_counts, Endpoints)
    /\ metrics.total_requests = Len(calls)
    /\ DOMAIN metrics.response_times = Endpoints
    /\ \A key \in Endpoints :
        /\ Len(metrics.response_times[key]) <= MaxStoredTimes
        /\ metrics.response_times[key] = LastN(TimesRecorded(key), MaxStoredTimes)
        /\ metrics.request_counts[key] = Len(TimesRecorded(key))

\* more than 1000 requests of one endpoint were recorded, some of them
\* failed, and a second endpoint was used
C35_Witness ==
    /\ <<"POST", " ", "/process">> \in Endpoints
    /\ metrics.request_counts[<<"GET", " ", "/health">>] = MaxStoredTimes + 1
    /\ Len(metrics.response_times[<<"GET", " ", "/health">>]) = MaxStoredTimes
    /\ metrics.failed_requests = 1
    /\ metrics.total_requests = MaxStoredTimes + 2

====
